---- MODULE Spec2Model ----
(***************************************************************************)
(* Model of the rybbit-js in-page telemetry agent: the session-replay      *)
(* batching/retry engine (sessionReplay.ts), the configuration store       *)
(* (config.ts), the SDK entry point (init) and the dispatcher (track).     *)
(*                                                                         *)
(* Strings are sequences of one-character strings, so that trimming,       *)
(* slash stripping, URL splitting and glob matching are computed and not   *)
(* assumed.  The single event-loop thread is modelled by interleaving:     *)
(* one action is one synchronous run of a handler up to its next await.    *)
(***************************************************************************)
EXTENDS Integers, Sequences, FiniteSets, TLC

VARIABLES
    \* ---- ConfigStore (config.ts) and SDK entry point (init)
    internalConfig,   \* the stored configuration record, or NULL
    calls,            \* per initializeConfig invocation: its position and data
    isInitialized,    \* the entry point's module flag
    lastSet,          \* history: the last assignment made through currentConfig
    \* ---- ReplayEngine (sessionReplay.ts)
    rrwebRecord,      \* TRUE once the recorder library is loaded
    loading,          \* number of initSessionReplay calls awaiting the import
    isRecording,
    recorders,        \* number of recorder instances started and not stopped
    eventBuffer,      \* the live buffer: a sequence of frame ids
    batchTimer,       \* TRUE when the interval timer handle is set
    intervals,        \* number of live setInterval timers of the engine
    inFlight,         \* batches whose sendBatch promise is still pending
    delivered,        \* batches whose send resolved, in completion order
    emitted,          \* number of frames the recorder has emitted so far
    lastOp,           \* history: the last replay operation and its batch
    pendingRetry,     \* history: frames re-queued by a failure, not yet re-flushed
    tornDown,         \* history: stop/cleanup was called and no init or start since
    \* ---- Dispatcher (track) and its environment
    storage,          \* the disable-rybbit key at module load: absent, present, throws
    globalOptOut,     \* window.__RYBBIT_OPTOUT__ at module load
    isOptedOut,       \* the module flag computed at load
    location,         \* window.location: pathname, search, hash
    pendingFetches,   \* fetch calls of sendWithFetch not yet settled
    lastTrack,        \* history: the last track call, its inputs and what it did
    \* ---- debounce (utils.ts): timers and the closures of debounced functions
    clock,            \* the time, in ticks
    wait,             \* the wait the debounced function under test was made with
    timers,           \* pending setTimeout timers: handle, closure, due time, args
    timeout,          \* per debounced closure: its timeout variable, 0 for null
    dlog,             \* history: calls of the debounced function and of func
    \* ---- listener registry (listeners.ts)
    lconf,            \* the settings the registry reads from currentConfig
    unsubscribed,     \* history: callbacks whose unsubscribe function was called
    isAutoTrackingSetup,
    pageviewTracker,  \* the tracker closure the module variable holds, 0 before any
    historyWraps,     \* wrapper layers around history.pushState / replaceState
    popstate,         \* tracker closures registered for popstate
    hashchange,       \* tracker closures registered for hashchange
    rafPending,       \* requestAnimationFrame callbacks not yet run
    currentPathname,  \* the last-observed pathname
    pageChangeCallbacks, \* the registered callbacks, in registration order
    lastRun,          \* history: what the last step of the registry triggered
    \* ---- PatternMatcher (utils.ts)
    lastMatch,        \* the pattern and path under test, and what regex.test returned
    \* ---- user identity: core (customUserId) and sessionReplay (currentUserId)
    customUserId,     \* the id track payloads carry, NoUserId for null
    currentUserId,    \* the id replay batches carry, NoUserId for undefined
    \* ---- web-vitals collector (webvitals.ts)
    webVitalsData,    \* per metric: its last collected value, or NULL
    webVitalsSent,
    webVitalsTimeout, \* the handle of the last timeout armed, 0 for null
    vitalsTimers,     \* handles of the timeouts armed and not yet fired or cleared
    vitalsInstalls,   \* initWebVitals calls that registered the collector
    performanceEvents \* history: the track("performance") calls and their cause

\* the JavaScript null of internalConfig: a record no configuration equals
NULL == [isNull |-> TRUE]

\* the metrics of WebVitalsData; a metric holds NULL before any report
Metrics == {"lcp", "cls", "inp", "fcp", "ttfb"}

\* the module state of the web-vitals collector at load
VitalsIdle ==
    /\ webVitalsData = [m \in Metrics |-> NULL]
    /\ webVitalsSent = FALSE
    /\ webVitalsTimeout = 0
    /\ vitalsTimers = {}
    /\ vitalsInstalls = 0
    /\ performanceEvents = <<>>

\* no user id: the null of customUserId, the undefined of currentUserId
NoUserId == <<>>

\* the identity state of a page that holds no stored id and identified nobody
IdentityIdle ==
    /\ customUserId = NoUserId
    /\ currentUserId = NoUserId

configVars == <<internalConfig, calls, isInitialized, lastSet>>
replayVars == <<rrwebRecord, loading, isRecording, recorders, eventBuffer,
                batchTimer, intervals, inFlight, delivered, emitted, lastOp, pendingRetry,
                tornDown>>
trackVars == <<storage, globalOptOut, isOptedOut, location, pendingFetches, lastTrack>>
debounceVars == <<clock, wait, timers, timeout, dlog>>
listenerVars == <<lconf, unsubscribed, isAutoTrackingSetup, pageviewTracker, historyWraps, popstate,
                  hashchange, rafPending, currentPathname, pageChangeCallbacks, lastRun>>
matcherVars == <<lastMatch>>
identityVars == <<customUserId, currentUserId>>
vitalsVars == <<webVitalsData, webVitalsSent, webVitalsTimeout, vitalsTimers,
                vitalsInstalls, performanceEvents>>
pageVars == <<debounceVars, listenerVars, matcherVars, identityVars, vitalsVars>>
vars == <<configVars, replayVars, trackVars, pageVars>>

Range(s) == {s[i] : i \in 1..Len(s)}

(***************************************************************************)
(* Bounds of the model.                                                    *)
(***************************************************************************)
\* frames the recorder emits in one run of the model
MaxFrames == 4
\* the buffer length that triggers an immediate flush; the source uses 250
\* (sessionReplay.ts:191), scaled here so that the threshold flush happens
\* within MaxFrames emissions
FlushThreshold == 3
\* the time up to which the model runs
MaxClock == 5
\* calls made to the debounced function under test
MaxDebounceCalls == 3
\* installs of the listener registry in one run
MaxInstalls == 2
\* page-change callbacks registered at the same time
MaxCallbacks == 2
\* page-change callbacks registered at the same time where their order is at stake
MaxSubscribers == 3
\* initWebVitals calls of one page
MaxVitalsInits == 2
\* the longest tested path, in segments
MaxSegments == 4
\* the longest pattern list searched
MaxPatterns == 3
\* initSessionReplay calls that may await the import at the same time
MaxLoads == 1

\* initializeConfig / init invocations in one run of the model
MaxCalls == 2
\* fetch requests of sendWithFetch that may be pending at the same time
MaxPendingFetches == 2

Frames == 1..MaxFrames
CallIds == 1..MaxCalls

(***************************************************************************)
(* ConfigStore reads: the currentConfig proxy.                             *)
(***************************************************************************)
\* remoteDefaults / localDefaults as seen through the proxy before init
DefaultConfig ==
    [analyticsHost |-> <<>>, siteId |-> <<>>, debounceDuration |-> 500,
     skipPatterns |-> <<>>, maskPatterns |-> <<>>,
     autoTrackPageview |-> TRUE, autoTrackSpa |-> TRUE,
     trackQuerystring |-> TRUE, trackOutbound |-> TRUE,
     enableWebVitals |-> FALSE, trackErrors |-> FALSE,
     enableSessionReplay |-> FALSE]

currentConfig == IF internalConfig = NULL THEN DefaultConfig ELSE internalConfig

(***************************************************************************)
(* ConfigStore: initializeConfig and fetchRemoteConfig.                    *)
(***************************************************************************)
Has(o, f) == f \in DOMAIN o

\* s.trim() === ""
IsBlank(s) == \A i \in 1..Len(s) : s[i] = " "

\* analyticsHost.replace(/\/$/, "")
StripTrailingSlash(s) ==
    IF Len(s) > 0 /\ s[Len(s)] = "/" THEN SubSeq(s, 1, Len(s) - 1) ELSE s

\* a pattern-list option: an array of patterns, or a value that is no array
Arr(items) == [array |-> TRUE, items |-> items]
NotArr == [array |-> FALSE, items |-> <<>>]

\* the option objects the host passes; a field left out is undefined
NotAnObject == [notObject |-> TRUE]
OptionSet ==
    { NotAnObject,
      [siteId |-> <<"s">>],
      [analyticsHost |-> <<" ">>, siteId |-> <<"s">>],
      [analyticsHost |-> <<"h">>],
      [analyticsHost |-> <<"h">>, siteId |-> <<"s">>],
      [analyticsHost |-> <<"h", "/">>, siteId |-> <<"s">>,
       debounceDuration |-> 0 - 10, skipPatterns |-> NotArr,
       maskPatterns |-> Arr(<< <<"/", "m">> >>)],
      [analyticsHost |-> <<"g">>, siteId |-> <<"t">>, debounceDuration |-> 250,
       skipPatterns |-> Arr(<< <<"/", "k">> >>)],
      [analyticsHost |-> <<"h", "/", "/">>, siteId |-> <<"s">>,
       trackQuerystring |-> FALSE, enableSessionReplay |-> TRUE] }

\* what the fetch of /site/tracking-config/{siteId} can come to
FullBody == [trackInitialPageView |-> FALSE, trackSpaNavigation |-> FALSE,
             trackUrlParams |-> FALSE, trackOutbound |-> FALSE,
             webVitals |-> TRUE, trackErrors |-> TRUE, sessionReplay |-> TRUE]
PartialBody == [sessionReplay |-> TRUE]
RemoteOutcomes ==
    { [kind |-> "ok", body |-> FullBody], [kind |-> "ok", body |-> PartialBody],
      [kind |-> "non2xx", body |-> FullBody], [kind |-> "reject", body |-> <<>>],
      [kind |-> "abort", body |-> <<>>] }

\* the remote-controlled fields of DefaultConfig
remoteDefaults ==
    [autoTrackPageview |-> TRUE, autoTrackSpa |-> TRUE, trackQuerystring |-> TRUE,
     trackOutbound |-> TRUE, enableWebVitals |-> FALSE, trackErrors |-> FALSE,
     enableSessionReplay |-> FALSE]

\* apiConfig.<field> ?? <default>
OrDefault(body, f, d) == IF Has(body, f) THEN body[f] ELSE d

\* fetchRemoteConfig reading the body of a response whatever its status
fetchRemoteConfigAnyStatus(outcome) ==
    IF outcome.kind \in {"ok", "non2xx"}
    THEN [autoTrackPageview |->
              OrDefault(outcome.body, "trackInitialPageView", remoteDefaults.autoTrackPageview),
          autoTrackSpa |->
              OrDefault(outcome.body, "trackSpaNavigation", remoteDefaults.autoTrackSpa),
          trackQuerystring |->
              OrDefault(outcome.body, "trackUrlParams", remoteDefaults.trackQuerystring),
          trackOutbound |->
              OrDefault(outcome.body, "trackOutbound", remoteDefaults.trackOutbound),
          enableWebVitals |->
              OrDefault(outcome.body, "webVitals", remoteDefaults.enableWebVitals),
          trackErrors |->
              OrDefault(outcome.body, "trackErrors", remoteDefaults.trackErrors),
          enableSessionReplay |->
              OrDefault(outcome.body, "sessionReplay", remoteDefaults.enableSessionReplay)]
    ELSE NULL

\* fetchRemoteConfig: the mapped remote record, or NULL on any failure
fetchRemoteConfig(outcome) ==
    IF outcome.kind = "ok"
    THEN [autoTrackPageview |->
              OrDefault(outcome.body, "trackInitialPageView", remoteDefaults.autoTrackPageview),
          autoTrackSpa |->
              OrDefault(outcome.body, "trackSpaNavigation", remoteDefaults.autoTrackSpa),
          trackQuerystring |->
              OrDefault(outcome.body, "trackUrlParams", remoteDefaults.trackQuerystring),
          trackOutbound |->
              OrDefault(outcome.body, "trackOutbound", remoteDefaults.trackOutbound),
          enableWebVitals |->
              OrDefault(outcome.body, "webVitals", remoteDefaults.enableWebVitals),
          trackErrors |->
              OrDefault(outcome.body, "trackErrors", remoteDefaults.trackErrors),
          enableSessionReplay |->
              OrDefault(outcome.body, "sessionReplay", remoteDefaults.enableSessionReplay)]
    ELSE NULL

\* initializeConfig without its already-initialized guard
NeverInitialized == FALSE

\* the guard at the top of initializeConfig
AlreadyInitialized == internalConfig # NULL

\* the validation without its test for a blank analyticsHost
ValidOptionsBlankHost(options) ==
    /\ ~Has(options, "notObject")
    /\ Has(options, "analyticsHost")
    /\ Len(options.analyticsHost) > 0
    /\ Has(options, "siteId")
    /\ Len(options.siteId) > 0
    /\ ~IsBlank(options.siteId)

\* the validation of initializeConfig before its await
ValidOptions(options) ==
    /\ ~Has(options, "notObject")
    /\ Has(options, "analyticsHost")
    /\ Len(options.analyticsHost) > 0
    /\ ~IsBlank(options.analyticsHost)
    /\ Has(options, "siteId")
    /\ Len(options.siteId) > 0
    /\ ~IsBlank(options.siteId)

Max(a, b) == IF a >= b THEN a ELSE b

ValidatedPatterns(options, f) ==
    IF Has(options, f) /\ options[f].array THEN options[f].items ELSE <<>>

\* the record initializeConfig stores after its await
BuildConfig(options, remoteConfig) ==
    LET finalRemoteConfig == IF remoteConfig = NULL THEN remoteDefaults ELSE remoteConfig
    IN  [analyticsHost |-> StripTrailingSlash(options.analyticsHost),
         siteId |-> options.siteId,
         debounceDuration |->
             Max(0, OrDefault(options, "debounceDuration", DefaultConfig.debounceDuration)),
         skipPatterns |-> ValidatedPatterns(options, "skipPatterns"),
         maskPatterns |-> ValidatedPatterns(options, "maskPatterns"),
         autoTrackPageview |-> finalRemoteConfig.autoTrackPageview,
         autoTrackSpa |-> finalRemoteConfig.autoTrackSpa,
         trackQuerystring |-> finalRemoteConfig.trackQuerystring,
         trackOutbound |-> finalRemoteConfig.trackOutbound,
         enableWebVitals |-> finalRemoteConfig.enableWebVitals,
         trackErrors |-> finalRemoteConfig.trackErrors,
         enableSessionReplay |-> finalRemoteConfig.enableSessionReplay]

NoOutcome == [kind |-> "none", body |-> <<>>]
NewCall ==
    [pc |-> "new", via |-> "none", options |-> NotAnObject, result |-> "none",
     outcome |-> NoOutcome]

\* initializeConfig from its entry to its first await, or to an early return
initializeConfig(c, options, via) ==
    IF AlreadyInitialized \/ ~ValidOptions(options)
    THEN calls' = [calls EXCEPT ![c] =
             [pc |-> "done", via |-> via, options |-> options, result |-> "false",
              outcome |-> NoOutcome]]
    ELSE calls' = [calls EXCEPT ![c] =
             [pc |-> "fetching", via |-> via, options |-> options, result |-> "none",
              outcome |-> NoOutcome]]

\* a direct call of initializeConfig
InitializeConfigCall(c, options) ==
    /\ calls[c].pc = "new"
    /\ initializeConfig(c, options, "direct")
    /\ UNCHANGED <<internalConfig, isInitialized, lastSet, replayVars, trackVars, pageVars>>

\* rybbit.init from its entry to its await of initializeConfig
RybbitInit(c, options) ==
    /\ calls[c].pc = "new"
    /\ IF isInitialized
       THEN calls' = [calls EXCEPT ![c] =
                [pc |-> "done", via |-> "init", options |-> options, result |-> "skipped",
                 outcome |-> NoOutcome]]
       ELSE initializeConfig(c, options, "init")
    /\ UNCHANGED <<internalConfig, isInitialized, lastSet, replayVars, trackVars, pageVars>>

\* no assignment through currentConfig has been made
NoSet == [field |-> "none", returned |-> TRUE, threw |-> FALSE]

\* the fields the host tries to assign
SetFields == {"siteId", "trackQuerystring"}

\* currentConfig.<field> = value: the set trap of the proxy logs, stores
\* nothing and returns false, which is a TypeError in strict-mode code and
\* is ignored in sloppy-mode code
SetCurrentConfig(field, strict) ==
    /\ lastSet' = [field |-> field, returned |-> FALSE, threw |-> strict]
    /\ UNCHANGED <<internalConfig, calls, isInitialized, replayVars, trackVars, pageVars>>

\* initSessionReplay from its entry to its await of the dynamic import
initSessionReplay(config) ==
    IF config.enableSessionReplay
    THEN /\ loading' = loading + 1
         /\ currentUserId' = customUserId
    ELSE UNCHANGED <<loading, currentUserId>>

\* the remote-config fetch settled: initializeConfig resumes, stores the
\* configuration and returns true; a call made through init then goes on to
\* set isInitialized and to call initSessionReplay
FetchSettles(c, outcome) ==
    /\ calls[c].pc = "fetching"
    /\ internalConfig' = BuildConfig(calls[c].options, fetchRemoteConfig(outcome))
    /\ calls' = [calls EXCEPT ![c].pc = "done", ![c].result = "true",
                               ![c].outcome = outcome]
    /\ IF calls[c].via = "init"
       THEN /\ isInitialized' = TRUE
            /\ initSessionReplay(internalConfig')
            /\ tornDown' = FALSE
       ELSE UNCHANGED <<isInitialized, loading, tornDown, currentUserId>>
    /\ UNCHANGED <<lastSet, rrwebRecord, isRecording, recorders, eventBuffer, batchTimer, intervals,
                   inFlight, delivered, emitted, lastOp, pendingRetry, trackVars,
                   debounceVars, listenerVars, matcherVars, vitalsVars, customUserId>>

(***************************************************************************)
(* PatternMatcher (utils.ts).                                              *)
(***************************************************************************)
Drop(s, k) == SubSeq(s, k + 1, Len(s))

\* the two replace calls that turn ** and then * into wildcard tokens; every
\* other character is escaped and so stands for itself
RECURSIVE Tokenize(_)
Tokenize(p) ==
    IF p = <<>> THEN <<>>
    ELSE IF Len(p) >= 2 /\ p[1] = "*" /\ p[2] = "*" THEN <<"**">> \o Tokenize(Drop(p, 2))
    ELSE <<p[1]>> \o Tokenize(Drop(p, 1))

\* patternToRegex: the compiled matcher, as its token list
patternToRegex(pattern) == Tokenize(pattern)

\* regex.test(path) for "^" + tokens + "$": ** is .*, * is [^/]+
RECURSIVE RegexTest(_, _)
RegexTest(tokens, path) ==
    IF tokens = <<>> THEN path = <<>>
    ELSE IF Head(tokens) = "**"
    THEN \E k \in 0..Len(path) : RegexTest(Tail(tokens), Drop(path, k))
    ELSE IF Head(tokens) = "*"
    THEN \E k \in 1..Len(path) :
            /\ \A i \in 1..k : path[i] # "/"
            /\ RegexTest(Tail(tokens), Drop(path, k))
    ELSE /\ path # <<>>
         /\ Head(path) = Head(tokens)
         /\ RegexTest(Tail(tokens), Tail(path))

NoMatch == [found |-> FALSE, pattern |-> <<>>]

\* findMatchingPattern returning the last pattern of the list that accepts
RECURSIVE findMatchingPatternLast(_, _)
findMatchingPatternLast(path, patterns) ==
    IF patterns = <<>> THEN NoMatch
    ELSE IF findMatchingPatternLast(path, Tail(patterns)).found
    THEN findMatchingPatternLast(path, Tail(patterns))
    ELSE IF RegexTest(patternToRegex(Head(patterns)), path)
    THEN [found |-> TRUE, pattern |-> Head(patterns)]
    ELSE NoMatch

\* findMatchingPattern: the first pattern of the list that accepts the path
RECURSIVE findMatchingPattern(_, _)
findMatchingPattern(path, patterns) ==
    IF patterns = <<>> THEN NoMatch
    ELSE IF RegexTest(patternToRegex(Head(patterns)), path)
    THEN [found |-> TRUE, pattern |-> Head(patterns)]
    ELSE findMatchingPattern(path, Tail(patterns))

\* the catch branch of patternToRegex: new RegExp throws only on a character
\* that reaches it unescaped and leaves the expression malformed; the escape
\* class and the wildcard tokens cover each of them, and nothing strips a
\* re: prefix first
patternToRegexIsNull(pattern) ==
    LET escapeClass == {".", "+", "?", "^", "$", "{", "}", "(", ")", "|", "[", "]", "\\"}
        wildcards == {"*"}
        malforming == {"(", ")", "[", "\\", "+", "?", "*"}
    IN  \E i \in 1..Len(pattern) :
            pattern[i] \in malforming \ (escapeClass \cup wildcards)

\* no pattern has been tested
NoTest ==
    [op |-> "none", pattern |-> <<>>, patterns |-> <<>>, path |-> <<>>,
     applied |-> FALSE, isNull |-> FALSE, result |-> FALSE, match |-> NoMatch]

\* patternToRegex(pattern)?.test(path), as the tests of utils.test.ts call it
TestPattern ==
    /\ lastMatch.op = "test"
    /\ ~lastMatch.applied
    /\ lastMatch' = [lastMatch EXCEPT
                        !.applied = TRUE,
                        !.isNull = patternToRegexIsNull(lastMatch.pattern),
                        !.result = /\ ~patternToRegexIsNull(lastMatch.pattern)
                                   /\ RegexTest(patternToRegex(lastMatch.pattern),
                                                lastMatch.path)]
    /\ UNCHANGED <<configVars, replayVars, trackVars, debounceVars, listenerVars,
                   identityVars, vitalsVars>>

\* findMatchingPattern(path, patterns), as the tests of utils.test.ts call it
FindPattern ==
    /\ lastMatch.op = "find"
    /\ ~lastMatch.applied
    /\ lastMatch' = [lastMatch EXCEPT
                        !.applied = TRUE,
                        !.match = findMatchingPattern(lastMatch.path, lastMatch.patterns)]
    /\ UNCHANGED <<configVars, replayVars, trackVars, debounceVars, listenerVars,
                   identityVars, vitalsVars>>

(***************************************************************************)
(* Dispatcher: track and sendWithFetch.                                    *)
(***************************************************************************)
\* module-load code that reads the persisted key and ignores the page's flag
LoadOptOutStorageOnly(key, flag) == key = "present"

\* the module-load code that computes isOptedOut
LoadOptOut(key, flag) == key = "present" \/ flag

\* s.trim()
RECURSIVE TrimLeft(_)
TrimLeft(s) == IF s # <<>> /\ Head(s) = " " THEN TrimLeft(Tail(s)) ELSE s
RECURSIVE TrimRight(_)
TrimRight(s) ==
    IF s # <<>> /\ s[Len(s)] = " " THEN TrimRight(SubSeq(s, 1, Len(s) - 1)) ELSE s
Trim(s) == TrimRight(TrimLeft(s))

StartsWith(s, prefix) ==
    Len(s) >= Len(prefix) /\ SubSeq(s, 1, Len(prefix)) = prefix

\* the least index of s holding one of chars, or Len(s) + 1
FirstIndex(s, chars) ==
    IF \E i \in 1..Len(s) : s[i] \in chars
    THEN CHOOSE i \in 1..Len(s) :
            /\ s[i] \in chars
            /\ \A j \in 1..(i - 1) : s[j] \notin chars
    ELSE Len(s) + 1

HttpScheme == <<"h", "t", "t", "p", ":", "/", "/">>
HttpsScheme == <<"h", "t", "t", "p", "s", ":", "/", "/">>

\* the two regular expressions of the override check
OverrideWellFormed(o) ==
    \/ (o # <<>> /\ o[1] = "/")
    \/ StartsWith(o, HttpScheme)
    \/ StartsWith(o, HttpsScheme)

\* the part of an absolute URL after its scheme and authority
AfterAuthority(o) ==
    LET rest == IF StartsWith(o, HttpsScheme) THEN Drop(o, Len(HttpsScheme))
                ELSE IF StartsWith(o, HttpScheme) THEN Drop(o, Len(HttpScheme))
                ELSE o
    IN  IF rest = o THEN o ELSE Drop(rest, FirstIndex(rest, {"/", "?", "#"}) - 1)

\* new URL(o, "http://dummybase"): its pathname and search
ParseOverride(o) ==
    LET rest == AfterAuthority(o)
        q == FirstIndex(rest, {"?", "#"})
        path == SubSeq(rest, 1, q - 1)
        tail == Drop(rest, q - 1)
        h == FirstIndex(tail, {"#"})
        query == SubSeq(tail, 1, h - 1)
    IN  [pathname |-> IF path = <<>> THEN <<"/">> ELSE path,
         search |-> IF Len(query) <= 1 THEN <<>> ELSE query]

\* new URL(o, base) throws: an absolute http(s) URL without a host
UrlThrows(o) ==
    LET rest == IF StartsWith(o, HttpsScheme) THEN Drop(o, Len(HttpsScheme))
                ELSE IF StartsWith(o, HttpScheme) THEN Drop(o, Len(HttpScheme))
                ELSE o
    IN  rest # o /\ FirstIndex(rest, {"/", "?", "#"}) = 1

\* new URL(o, "http://dummybase") of core.ts, which parses the override as it
\* is given: the parser strips the surrounding spaces, and a string that is
\* neither a path nor an absolute URL is a path relative to the base
ParseRelative(o) ==
    LET t == Trim(o)
    IN  IF OverrideWellFormed(t) THEN ParseOverride(t)
        ELSE ParseOverride(<<"/">> \o t)

\* getPathname: the pathname with the hash appended
getPathname(loc) == loc.pathname \o loc.hash

\* a name check that forgets custom events
NameRequiredPerformanceOnly(eventType) == eventType = "performance"

\* the event types that track refuses without an event name
NameRequired(eventType) == eventType \in {"custom_event", "performance"}

\* a path resolution that takes the override's path and the live page's query
ResolvePathLiveQuery(eventType, pathOverride, loc, config) ==
    [pathname |-> IF eventType = "pageview" /\ Trim(pathOverride) # <<>>
                        /\ OverrideWellFormed(Trim(pathOverride))
                        /\ ~UrlThrows(Trim(pathOverride))
                  THEN ParseOverride(Trim(pathOverride)).pathname
                  ELSE getPathname(loc),
     search |-> IF config.trackQuerystring THEN loc.search ELSE <<>>]

\* the path and query string track resolves before classification
ResolvePath(eventType, pathOverride, loc, config) ==
    IF eventType = "pageview" /\ Trim(pathOverride) # <<>>
          /\ OverrideWellFormed(Trim(pathOverride))
          /\ ~UrlThrows(Trim(pathOverride))
    THEN ParseOverride(Trim(pathOverride))
    ELSE [pathname |-> getPathname(loc),
          search |-> IF config.trackQuerystring THEN loc.search ELSE <<>>]

\* the event types that the track of core.ts refuses without an event name
NameRequiredCore(eventType) == eventType = "custom_event"

\* the path and query string the track of core.ts resolves: no check of the
\* override's shape before it is parsed
ResolvePathCore(eventType, pathOverride, loc, config) ==
    IF eventType = "pageview" /\ Trim(pathOverride) # <<>>
          /\ ~UrlThrows(Trim(pathOverride))
    THEN ParseRelative(pathOverride)
    ELSE [pathname |-> getPathname(loc),
          search |-> IF config.trackQuerystring THEN loc.search ELSE <<>>]

\* the skip test without the exemption of performance events
SkipAppliesAllTypes(eventType, path, config) ==
    findMatchingPattern(path, config.skipPatterns).found

\* the skip test of track
SkipApplies(eventType, path, config) ==
    eventType # "performance" /\ findMatchingPattern(path, config.skipPatterns).found

\* the mask test of track
MaskApplies(eventType, path, config) ==
    findMatchingPattern(path, config.maskPatterns).found /\ eventType # "performance"

\* the types whose payload carries event_name
CarriesName(eventType) == eventType \in {"custom_event", "performance", "error"}

\* the types whose payload carries event_name in core.ts
CarriesNameCore(eventType) == eventType \in {"custom_event", "performance"}

NoPayload == [none |-> TRUE]

\* the payload track assembles
Payload(eventType, eventName, resolved, config) ==
    LET masked == MaskApplies(eventType, resolved.pathname, config)
    IN  [type |-> eventType,
         site_id |-> config.siteId,
         pathname |-> IF masked
                      THEN findMatchingPattern(resolved.pathname, config.maskPatterns).pattern
                      ELSE resolved.pathname,
         querystring |-> IF masked THEN <<>> ELSE resolved.search,
         event_name |-> IF CarriesName(eventType) THEN eventName ELSE <<>>]

\* what the browser does with the call: the beacon primitive is missing,
\* accepts, rejects or throws; serialization or fetch may throw
TransportEnvs ==
    {"beaconAccepts", "beaconRejects", "beaconThrows", "noBeacon",
     "beaconRejectsFetchThrows", "noBeaconFetchThrows", "serializeThrows"}

\* sendWithFetch: the log entry of its fetch call
sendWithFetch(env) ==
    IF env \in {"beaconRejectsFetchThrows", "noBeaconFetchThrows"}
    THEN <<"fetch:threw">> ELSE <<"fetch:issued">>

\* a delivery step that posts with fetch whatever the beacon answered
DeliverAlwaysFetch(env) ==
    IF env \in {"noBeacon", "noBeaconFetchThrows"} THEN <<"fetch:issued">>
    ELSE IF env = "beaconAccepts" THEN <<"beacon:accepted", "fetch:issued">>
    ELSE <<"beacon:rejected", "fetch:issued">>

\* the delivery step of track: the transport calls it makes, in order
Deliver(env) ==
    IF env \in {"noBeacon", "noBeaconFetchThrows"} THEN sendWithFetch(env)
    ELSE IF env = "beaconThrows" THEN <<"beacon:threw">>
    ELSE IF env = "beaconAccepts" THEN <<"beacon:accepted">>
    ELSE <<"beacon:rejected">> \o sendWithFetch(env)

\* track: the stage it ends in, its payload and its transport calls
TrackOutcome(eventType, eventName, pathOverride, env, loc, config, optedOut) ==
    LET resolved == ResolvePath(eventType, pathOverride, loc, config)
        quiet(stage) == [stage |-> stage, payload |-> NoPayload, transport |-> <<>>]
    IN  IF optedOut THEN quiet("optedOut")
        ELSE IF config.analyticsHost = <<>> \/ config.siteId = <<>> THEN quiet("noConfig")
        ELSE IF NameRequired(eventType) /\ eventName = <<>> THEN quiet("noName")
        ELSE IF SkipApplies(eventType, resolved.pathname, config) THEN quiet("skipped")
        ELSE IF env = "serializeThrows" THEN quiet("threw")
        ELSE [stage |-> "sent",
              payload |-> Payload(eventType, eventName, resolved, config),
              transport |-> Deliver(env)]

\* track of core.ts: the same pipeline around its own name check, path
\* resolution and event_name rule
TrackOutcomeCore(eventType, eventName, pathOverride, env, loc, config, optedOut) ==
    LET resolved == ResolvePathCore(eventType, pathOverride, loc, config)
        quiet(stage) == [stage |-> stage, payload |-> NoPayload, transport |-> <<>>]
    IN  IF optedOut THEN quiet("optedOut")
        ELSE IF config.analyticsHost = <<>> \/ config.siteId = <<>> THEN quiet("noConfig")
        ELSE IF NameRequiredCore(eventType) /\ eventName = <<>> THEN quiet("noName")
        ELSE IF SkipApplies(eventType, resolved.pathname, config) THEN quiet("skipped")
        ELSE IF env = "serializeThrows" THEN quiet("threw")
        ELSE [stage |-> "sent",
              payload |-> [Payload(eventType, eventName, resolved, config)
                              EXCEPT !.event_name =
                                  IF CarriesNameCore(eventType) THEN eventName ELSE <<>>],
              transport |-> Deliver(env)]

EventTypes == {"pageview", "custom_event", "outbound", "performance", "error"}

\* event names: none given (undefined or empty), or a name
EventNames == {<<>>, <<"n">>}

\* path overrides: none (undefined or empty), blank, a path with a query,
\* one that is neither a path nor a URL, and an absolute URL
NoOverride == <<>>
Overrides ==
    { NoOverride, <<" ">>, <<"/", "o", "?", "y">>, <<":", ":">>,
      <<"h", "t", "t", "p", ":", "/", "/", "x", "/", "p">>,
      <<" ", "/", "m", "/", "2">>, <<"h", "t", "t", "p", ":", "/", "/">> }

\* one call of track, from the event loop
Track(eventType, eventName, pathOverride, env) ==
    /\ ~lastTrack.called
    /\ pendingFetches < MaxPendingFetches
    /\ eventType # "pageview" => pathOverride = NoOverride
    /\ LET out == TrackOutcome(eventType, eventName, pathOverride, env, location,
                               currentConfig, isOptedOut)
       IN  /\ lastTrack' = [called |-> TRUE, module |-> "track", eventType |-> eventType,
                            eventName |-> eventName, pathOverride |-> pathOverride,
                            env |-> env, stage |-> out.stage, payload |-> out.payload,
                            transport |-> out.transport]
           /\ pendingFetches' =
                  IF \E i \in 1..Len(out.transport) : out.transport[i] = "fetch:issued"
                  THEN pendingFetches + 1 ELSE pendingFetches
    /\ UNCHANGED <<storage, globalOptOut, isOptedOut, location, configVars, replayVars, pageVars>>

\* one call of the track of core.ts, from the event loop
TrackCore(eventType, eventName, pathOverride, env) ==
    /\ ~lastTrack.called
    /\ pendingFetches < MaxPendingFetches
    /\ eventType # "pageview" => pathOverride = NoOverride
    /\ LET out == TrackOutcomeCore(eventType, eventName, pathOverride, env, location,
                                   currentConfig, isOptedOut)
       IN  /\ lastTrack' = [called |-> TRUE, module |-> "core", eventType |-> eventType,
                            eventName |-> eventName, pathOverride |-> pathOverride,
                            env |-> env, stage |-> out.stage, payload |-> out.payload,
                            transport |-> out.transport]
           /\ pendingFetches' =
                  IF \E i \in 1..Len(out.transport) : out.transport[i] = "fetch:issued"
                  THEN pendingFetches + 1 ELSE pendingFetches
    /\ UNCHANGED <<storage, globalOptOut, isOptedOut, location, configVars, replayVars, pageVars>>

\* a fetch of sendWithFetch settles; a rejection is logged and nothing more
FetchCompletes(ok) ==
    /\ pendingFetches > 0
    /\ pendingFetches' = pendingFetches - 1
    /\ UNCHANGED <<storage, globalOptOut, isOptedOut, location, lastTrack,
                   configVars, replayVars, pageVars>>

NoTrack == [called |-> FALSE, module |-> "none", eventType |-> "none", eventName |-> <<>>,
            pathOverride |-> <<>>, env |-> "none", stage |-> "none",
            payload |-> NoPayload, transport |-> <<>>]

\* track has returned and its caller's turn of the event loop ends: the record
\* of the call is dropped
TrackReturns ==
    /\ lastTrack.called
    /\ lastTrack' = NoTrack
    /\ UNCHANGED <<storage, globalOptOut, isOptedOut, location, pendingFetches,
                   configVars, replayVars, pageVars>>

\* the dispatcher at rest on a page that has not opted out
TrackIdle ==
    /\ storage = "absent"
    /\ globalOptOut = FALSE
    /\ isOptedOut = LoadOptOut(storage, globalOptOut)
    /\ location = [pathname |-> <<"/">>, search |-> <<>>, hash |-> <<>>]
    /\ pendingFetches = 0
    /\ lastTrack = NoTrack

(***************************************************************************)
(* debounce (utils.ts).                                                    *)
(***************************************************************************)
\* the debounced closures of a run: the function under test is closure 1, the
\* pageview trackers of the listener registry are numbered by their install
Closures == 1..MaxInstalls

\* timer handles
TimerIds == 1..(MaxDebounceCalls + MaxInstalls)

\* wait values the function under test is made with
Waits == {1, 2}

\* argument values of the calls
DebounceArgs == {"first", "second"}

\* no debounced function has been called
DebounceIdle ==
    /\ clock = 0
    /\ timers = {}
    /\ timeout = [c \in Closures |-> 0]
    /\ dlog = <<>>

\* the handle setTimeout returns: the least one no pending timer has
FreshTimer(pending) ==
    CHOOSE id \in TimerIds :
        /\ \A t \in pending : t.id # id
        /\ \A k \in 1..(id - 1) : \E t \in pending : t.id = k

\* a debounced function that arms a new timer without clearing the pending one
debouncedNoClear(c, w, args) ==
    /\ timers' = timers \cup {[id |-> FreshTimer(timers), c |-> c, due |-> clock + w,
                                args |-> args]}
    /\ timeout' = [timeout EXCEPT ![c] = FreshTimer(timers)]

\* the function debounce returns, called with args: clearTimeout of the
\* pending timer when there is one, then setTimeout(..., wait)
debounced(c, w, args) ==
    /\ LET kept == {t \in timers : t.id # timeout[c]}
       IN  /\ timers' = kept \cup {[id |-> FreshTimer(kept), c |-> c, due |-> clock + w,
                                     args |-> args]}
           /\ timeout' = [timeout EXCEPT ![c] = FreshTimer(kept)]

\* the timer callback up to its call of func: timeout = null
timerCallback(t) ==
    /\ timers' = timers \ {t}
    /\ timeout' = [timeout EXCEPT ![t.c] = 0]

CallsMade == Cardinality({i \in 1..Len(dlog) : dlog[i].kind = "call"})

\* a call of the debounced function under test
CallDebounced(args) ==
    /\ CallsMade < MaxDebounceCalls
    /\ debounced(1, wait, args)
    /\ dlog' = Append(dlog, [kind |-> "call", at |-> clock, args |-> args])
    /\ UNCHANGED <<clock, wait, configVars, replayVars, trackVars, matcherVars, vitalsVars, identityVars, listenerVars>>

\* a timer of the function under test is due: func.apply(context, args)
DebounceTimerFires(t) ==
    /\ t \in timers
    /\ t.c = 1
    /\ t.due <= clock
    /\ timerCallback(t)
    /\ dlog' = Append(dlog, [kind |-> "func", at |-> clock, args |-> t.args])
    /\ UNCHANGED <<clock, wait, configVars, replayVars, trackVars, matcherVars, vitalsVars, identityVars, listenerVars>>

\* time passes; a due timer runs before the clock moves on
Tick ==
    /\ clock < MaxClock
    /\ \A t \in timers : t.due > clock
    /\ clock' = clock + 1
    /\ UNCHANGED <<wait, timers, timeout, dlog, configVars, replayVars, trackVars, matcherVars, vitalsVars, identityVars,
                   listenerVars>>

(***************************************************************************)
(* Listener registry (listeners.ts).                                       *)
(***************************************************************************)
\* the settings setupAutoTracking reads: pageview tracking off; on without
\* debounce; on with a debounce of one tick; on without SPA route tracking
ListenerConfigs ==
    { [autoTrackPageviews |-> FALSE, debounce |-> 0, autoTrackSpaRoutes |-> TRUE],
      [autoTrackPageviews |-> TRUE, debounce |-> 0, autoTrackSpaRoutes |-> TRUE],
      [autoTrackPageviews |-> TRUE, debounce |-> 1, autoTrackSpaRoutes |-> TRUE],
      [autoTrackPageviews |-> TRUE, debounce |-> 0, autoTrackSpaRoutes |-> FALSE] }

NoRun == [source |-> "none", installed |-> FALSE, triggers |-> 0, runs |-> 0,
          before |-> <<>>, path |-> <<>>, registered |-> <<>>, notes |-> <<>>,
          escaped |-> FALSE, tracks |-> 0, stage |-> "none"]

\* the module state of listeners.ts at load
ListenersIdle ==
    /\ lconf = [autoTrackPageviews |-> TRUE, debounce |-> 0, autoTrackSpaRoutes |-> TRUE]
    /\ unsubscribed = {}
    /\ isAutoTrackingSetup = FALSE
    /\ pageviewTracker = 0
    /\ historyWraps = 0
    /\ popstate = {}
    /\ hashchange = {}
    /\ rafPending = 0
    /\ currentPathname = <<>>
    /\ pageChangeCallbacks = <<>>
    /\ lastRun = NoRun

\* the callback invocations of one notification, in order
NotesFor(cbs, newPath, previousPath) ==
    [i \in 1..Len(cbs) |-> [cb |-> cbs[i].id, new |-> newPath, prev |-> previousPath]]

\* a notifyPageChange without the try/catch around each callback: the first
\* callback that throws ends the loop and the exception leaves the function
notifyPageChangeUncaught(newPath, previousPath, cbs) ==
    IF previousPath = newPath THEN [notes |-> <<>>, escaped |-> FALSE]
    ELSE IF \E i \in 1..Len(cbs) : cbs[i].throws
    THEN LET k == CHOOSE i \in 1..Len(cbs) :
                     cbs[i].throws /\ \A j \in 1..(i - 1) : ~cbs[j].throws
         IN  [notes |-> NotesFor(SubSeq(cbs, 1, k), newPath, previousPath),
              escaped |-> TRUE]
    ELSE [notes |-> NotesFor(cbs, newPath, previousPath), escaped |-> FALSE]

\* a notifyPageChange that reads the previous path after overwriting it
notifyPageChangeStale(newPath, previousPath, cbs) ==
    IF previousPath = newPath THEN [notes |-> <<>>, escaped |-> FALSE]
    ELSE [notes |-> NotesFor(cbs, newPath, newPath), escaped |-> FALSE]

\* notifyPageChange: the callbacks it invokes and whether an exception
\* leaves it; every callback runs inside its own try/catch
notifyPageChange(newPath, previousPath, cbs) ==
    IF previousPath = newPath THEN [notes |-> <<>>, escaped |-> FALSE]
    ELSE [notes |-> NotesFor(cbs, newPath, previousPath), escaped |-> FALSE]

\* the body of pageviewTracker run n times in a row after the location became
\* loc: getPathname, notifyPageChange, track("pageview")
RunTracker(source, n, loc) ==
    LET newPath == getPathname(loc)
        res == notifyPageChange(newPath, currentPathname, pageChangeCallbacks)
    IN  /\ currentPathname' = newPath
        /\ lastRun' = [source |-> source, installed |-> isAutoTrackingSetup,
                       triggers |-> n, runs |-> n,
                       before |-> currentPathname, path |-> newPath,
                       registered |-> pageChangeCallbacks, notes |-> res.notes,
                       escaped |-> res.escaped,
                       tracks |-> IF res.escaped THEN 0 ELSE n,
                       stage |-> TrackOutcomeCore("pageview", <<>>, NoOverride,
                                                  "beaconAccepts", loc, currentConfig,
                                                  isOptedOut).stage]

\* n calls of pageviewTracker() made by one event after the location became
\* loc: the debounced tracker re-arms its timer, the plain one runs its body
InvokeTracker(source, c, n, loc) ==
    IF n = 0
    THEN /\ lastRun' = [NoRun EXCEPT !.source = source, !.installed = isAutoTrackingSetup]
         /\ UNCHANGED <<currentPathname, timers, timeout>>
    ELSE IF lconf.debounce > 0
    THEN /\ debounced(c, lconf.debounce, "pageview")
         /\ lastRun' = [NoRun EXCEPT !.source = source, !.installed = isAutoTrackingSetup,
                                     !.triggers = n]
         /\ UNCHANGED currentPathname
    ELSE /\ RunTracker(source, n, loc)
         /\ UNCHANGED <<timers, timeout>>

\* a setupAutoTracking without its already-set-up return
SetupAutoTrackingAgain ==
    /\ lastRun = NoRun
    /\ pageviewTracker < MaxInstalls
    /\ IF ~lconf.autoTrackPageviews
       THEN UNCHANGED <<isAutoTrackingSetup, pageviewTracker, historyWraps, popstate,
                        hashchange, rafPending, currentPathname>>
       ELSE /\ currentPathname' = getPathname(location)
            /\ pageviewTracker' = pageviewTracker + 1
            /\ rafPending' = rafPending + 1
            /\ IF lconf.autoTrackSpaRoutes
               THEN /\ historyWraps' = historyWraps + 1
                    /\ popstate' = popstate \cup {pageviewTracker'}
               ELSE UNCHANGED <<historyWraps, popstate>>
            /\ hashchange' = hashchange \cup {pageviewTracker'}
            /\ isAutoTrackingSetup' = TRUE
    /\ UNCHANGED <<lconf, unsubscribed, pageChangeCallbacks, lastRun, debounceVars,
                   configVars, replayVars, trackVars, matcherVars, vitalsVars, identityVars>>

\* setupAutoTracking
SetupAutoTracking ==
    /\ lastRun = NoRun
    /\ pageviewTracker < MaxInstalls
    /\ IF isAutoTrackingSetup \/ ~lconf.autoTrackPageviews
       THEN UNCHANGED <<isAutoTrackingSetup, pageviewTracker, historyWraps, popstate,
                        hashchange, rafPending, currentPathname>>
       ELSE /\ currentPathname' = getPathname(location)
            /\ pageviewTracker' = pageviewTracker + 1
            /\ rafPending' = rafPending + 1
            /\ IF lconf.autoTrackSpaRoutes
               THEN /\ historyWraps' = historyWraps + 1
                    /\ popstate' = popstate \cup {pageviewTracker'}
               ELSE UNCHANGED <<historyWraps, popstate>>
            /\ hashchange' = hashchange \cup {pageviewTracker'}
            /\ isAutoTrackingSetup' = TRUE
    /\ UNCHANGED <<lconf, unsubscribed, pageChangeCallbacks, lastRun, debounceVars, configVars,
                   replayVars, trackVars, matcherVars, vitalsVars, identityVars>>

\* the body of cleanupAutoTracking
cleanupAutoTracking ==
    IF ~isAutoTrackingSetup
    THEN UNCHANGED <<popstate, hashchange, pageChangeCallbacks, isAutoTrackingSetup>>
    ELSE /\ popstate' = popstate \ {pageviewTracker}
         /\ hashchange' = hashchange \ {pageviewTracker}
         /\ pageChangeCallbacks' = <<>>
         /\ isAutoTrackingSetup' = FALSE

\* a call of cleanupAutoTracking
CleanupAutoTracking ==
    /\ lastRun = NoRun
    /\ cleanupAutoTracking
    /\ UNCHANGED <<lconf, unsubscribed, pageviewTracker, historyWraps, rafPending, currentPathname,
                   lastRun, debounceVars, configVars, replayVars, trackVars, matcherVars, vitalsVars, identityVars>>

\* the callbacks the host registers: the even-numbered ones throw when called
Callback(id) == [id |-> id, throws |-> id % 2 = 0]

\* addPageChangeCallback of a callback that is not registered yet
addPageChangeCallback(id) ==
    /\ lastRun = NoRun
    /\ \A i \in 1..Len(pageChangeCallbacks) : pageChangeCallbacks[i].id # id
    /\ pageChangeCallbacks' = Append(pageChangeCallbacks, Callback(id))
    /\ unsubscribed' = unsubscribed \ {id}
    /\ UNCHANGED <<lconf, isAutoTrackingSetup, pageviewTracker, historyWraps, popstate,
                   hashchange, rafPending, currentPathname, lastRun, debounceVars,
                   configVars, replayVars, trackVars, matcherVars, vitalsVars, identityVars>>

\* a call of addPageChangeCallback
AddPageChangeCallback(id) ==
    /\ Len(pageChangeCallbacks) < MaxCallbacks
    /\ addPageChangeCallback(id)

\* an unsubscribe function that moves the last callback into the place of
\* the one it removes
RemovePageChangeCallbackBySwap(id) ==
    /\ lastRun = NoRun
    /\ \E i \in 1..Len(pageChangeCallbacks) : pageChangeCallbacks[i].id = id
    /\ LET n == Len(pageChangeCallbacks)
           k == CHOOSE i \in 1..n : pageChangeCallbacks[i].id = id
       IN  pageChangeCallbacks' =
               [i \in 1..(n - 1) |-> IF i = k THEN pageChangeCallbacks[n]
                                     ELSE pageChangeCallbacks[i]]
    /\ unsubscribed' = unsubscribed \cup {id}
    /\ UNCHANGED <<lconf, isAutoTrackingSetup, pageviewTracker, historyWraps, popstate,
                   hashchange, rafPending, currentPathname, lastRun, debounceVars,
                   configVars, replayVars, trackVars, matcherVars, vitalsVars, identityVars>>

\* the unsubscribe function addPageChangeCallback returned for callback id
RemovePageChangeCallback(id) ==
    /\ lastRun = NoRun
    /\ \E i \in 1..Len(pageChangeCallbacks) : pageChangeCallbacks[i].id = id
    /\ pageChangeCallbacks' = SelectSeq(pageChangeCallbacks, LAMBDA cb : cb.id # id)
    /\ unsubscribed' = unsubscribed \cup {id}
    /\ UNCHANGED <<lconf, isAutoTrackingSetup, pageviewTracker, historyWraps, popstate,
                   hashchange, rafPending, currentPathname, lastRun, debounceVars,
                   configVars, replayVars, trackVars, matcherVars, vitalsVars, identityVars>>

NavigationKinds == {"pushState", "replaceState", "popstate", "hashchange"}

\* the tracker closure a navigation of this kind calls
TrackerCalled(kind) ==
    IF kind \in {"pushState", "replaceState"} THEN pageviewTracker
    ELSE IF kind = "popstate"
    THEN (IF popstate = {} THEN 0 ELSE CHOOSE c \in popstate : TRUE)
    ELSE (IF hashchange = {} THEN 0 ELSE CHOOSE c \in hashchange : TRUE)

\* how many times a navigation of this kind calls pageviewTracker: once per
\* wrapper layer of the history entry points, once per registered listener
TriggerCount(kind) ==
    IF kind \in {"pushState", "replaceState"} THEN historyWraps
    ELSE IF kind = "popstate" THEN Cardinality(popstate)
    ELSE Cardinality(hashchange)

\* a client-side navigation to loc: a history.pushState / replaceState call
\* of the page, or a popstate / hashchange event
Navigate(kind, loc) ==
    /\ lastRun = NoRun
    /\ location' = loc
    /\ InvokeTracker(kind, TrackerCalled(kind), TriggerCount(kind), loc)
    /\ UNCHANGED <<clock, wait, dlog, lconf, unsubscribed, isAutoTrackingSetup, pageviewTracker,
                   historyWraps, popstate, hashchange, rafPending, pageChangeCallbacks,
                   storage, globalOptOut, isOptedOut, pendingFetches, lastTrack,
                   configVars, replayVars, matcherVars, vitalsVars, identityVars>>

\* the animation-frame callback of setupAutoTracking: pageviewTracker()
RafFires ==
    /\ lastRun = NoRun
    /\ rafPending > 0
    /\ rafPending' = rafPending - 1
    /\ InvokeTracker("raf", pageviewTracker, 1, location)
    /\ UNCHANGED <<clock, wait, dlog, lconf, unsubscribed, isAutoTrackingSetup, pageviewTracker,
                   historyWraps, popstate, hashchange, pageChangeCallbacks,
                   configVars, replayVars, trackVars, matcherVars, vitalsVars, identityVars>>

\* time passes until the earliest timer of a debounced tracker is due, and
\* the tracker's body runs.  The registry reads the time only through its
\* pending timers, so the clock restarts when the last of them has run
TrackerTimerFires(t) ==
    /\ lastRun = NoRun
    /\ t \in timers
    /\ \A u \in timers : t.due <= u.due
    /\ timerCallback(t)
    /\ clock' = (IF timers \ {t} = {} THEN 0 ELSE Max(clock, t.due))
    /\ RunTracker("timer", 1, location)
    /\ UNCHANGED <<wait, dlog, lconf, unsubscribed, isAutoTrackingSetup, pageviewTracker,
                   historyWraps, popstate, hashchange, rafPending, pageChangeCallbacks,
                   configVars, replayVars, trackVars, matcherVars, vitalsVars, identityVars>>

\* the event that ran the tracker is over: the record of the run is dropped
ListenerReturns ==
    /\ lastRun # NoRun
    /\ lastRun' = NoRun
    /\ UNCHANGED <<lconf, unsubscribed, isAutoTrackingSetup, pageviewTracker, historyWraps, popstate,
                   hashchange, rafPending, currentPathname, pageChangeCallbacks,
                   debounceVars, configVars, replayVars, trackVars, matcherVars, vitalsVars, identityVars>>

(***************************************************************************)
(* ReplayEngine.                                                           *)
(***************************************************************************)
NoOp == [op |-> "none", batch |-> <<>>]

\* currentUserId || "": the userId field of a batch
OrEmpty(userId) == IF userId = NoUserId THEN <<>> ELSE userId

\* flushEvents that sends the frames and forgets to swap the buffer out
flushEventsKeepsBuffer(buf, how) ==
    /\ eventBuffer' = buf
    /\ inFlight' = IF Len(buf) = 0 THEN inFlight ELSE inFlight \cup {buf}
    /\ pendingRetry' = pendingRetry \ Range(buf)
    /\ lastOp' = [op |-> how, batch |-> buf]

\* flushEvents applied to buffer contents buf: swap the buffer out and hand
\* the frames to sendBatch, whose promise stays pending in inFlight
flushEvents(buf, how) ==
    IF Len(buf) = 0
    THEN /\ eventBuffer' = buf
         /\ UNCHANGED <<inFlight, pendingRetry>>
         /\ lastOp' = [op |-> how, batch |-> <<>>]
    ELSE /\ eventBuffer' = <<>>
         /\ inFlight' = inFlight \cup {buf}
         /\ pendingRetry' = pendingRetry \ Range(buf)
         /\ lastOp' = [op |-> how, batch |-> buf, userId |-> OrEmpty(currentUserId)]

\* an addEvent that flushes only once the threshold is exceeded
addEventAboveThreshold(f) ==
    LET buf == Append(eventBuffer, f) IN
    IF Len(buf) > FlushThreshold
    THEN flushEvents(buf, "threshold")
    ELSE /\ eventBuffer' = buf
         /\ lastOp' = [op |-> "emit", batch |-> <<>>]
         /\ UNCHANGED <<inFlight, pendingRetry>>

\* addEvent: append, then flush at once when the threshold is reached
addEvent(f) ==
    LET buf == Append(eventBuffer, f) IN
    IF Len(buf) >= FlushThreshold
    THEN flushEvents(buf, "threshold")
    ELSE /\ eventBuffer' = buf
         /\ lastOp' = [op |-> "emit", batch |-> <<>>]
         /\ UNCHANGED <<inFlight, pendingRetry>>

\* the recorder's emit callback: only a started recorder emits
Emit ==
    /\ recorders > 0
    /\ emitted < MaxFrames
    /\ emitted' = emitted + 1
    /\ addEvent(emitted + 1)
    /\ UNCHANGED tornDown
    /\ UNCHANGED <<rrwebRecord, loading, isRecording, recorders, batchTimer, intervals,
                   delivered, configVars, trackVars, pageVars>>

\* setupBatchTimer: clearBatchTimer, then arm one interval
setupBatchTimer ==
    /\ batchTimer' = TRUE
    /\ intervals' = (IF batchTimer THEN intervals - 1 ELSE intervals) + 1

\* a clearBatchTimer that drops nothing: the interval stays armed
clearBatchTimerLeavesInterval ==
    /\ batchTimer' = batchTimer
    /\ intervals' = intervals

\* a clearBatchTimer that forgets the handle without clearInterval
clearBatchTimerKeepsInterval ==
    /\ batchTimer' = FALSE
    /\ intervals' = intervals

\* clearBatchTimer
clearBatchTimer ==
    /\ batchTimer' = FALSE
    /\ intervals' = (IF batchTimer THEN intervals - 1 ELSE intervals)

\* a startRecording without the already-recording test of its guard
startRecordingWhileRecording(recordThrows) ==
    IF ~rrwebRecord' \/ ~currentConfig.enableSessionReplay
    THEN UNCHANGED <<isRecording, recorders, batchTimer, intervals>>
    ELSE IF recordThrows
    THEN UNCHANGED <<isRecording, recorders, batchTimer, intervals>>
    ELSE /\ recorders' = recorders + 1
         /\ isRecording' = TRUE
         /\ setupBatchTimer

\* startRecording; recordThrows is the recorder throwing on start
startRecording(recordThrows) ==
    IF isRecording \/ ~rrwebRecord' \/ ~currentConfig.enableSessionReplay
    THEN UNCHANGED <<isRecording, recorders, batchTimer, intervals>>
    ELSE IF recordThrows
    THEN UNCHANGED <<isRecording, recorders, batchTimer, intervals>>
    ELSE /\ recorders' = recorders + 1
         /\ isRecording' = TRUE
         /\ setupBatchTimer

\* initSessionReplay up to its await of the dynamic import
InitSessionReplayCall ==
    /\ loading < MaxLoads
    /\ currentConfig.enableSessionReplay
    /\ initSessionReplay(currentConfig)
    /\ lastOp' = [op |-> "initReplay", batch |-> <<>>]
    /\ tornDown' = FALSE
    /\ UNCHANGED <<rrwebRecord, isRecording, recorders, eventBuffer, batchTimer, intervals,
                   inFlight, delivered, emitted, pendingRetry, configVars, trackVars,
                   debounceVars, listenerVars, matcherVars, vitalsVars, customUserId>>

\* initSessionReplay resumed: the import resolved
RrwebLoaded ==
    /\ loading > 0
    /\ loading' = loading - 1
    /\ rrwebRecord' = TRUE
    /\ \E recordThrows \in BOOLEAN : startRecording(recordThrows)
    /\ lastOp' = [op |-> "loaded", batch |-> <<>>]
    /\ UNCHANGED tornDown
    /\ UNCHANGED <<eventBuffer, inFlight, delivered, emitted, pendingRetry,
                   configVars, trackVars, pageVars>>

\* initSessionReplay resumed: the import rejected
RrwebLoadFailed ==
    /\ loading > 0
    /\ loading' = loading - 1
    /\ lastOp' = [op |-> "loadFailed", batch |-> <<>>]
    /\ UNCHANGED tornDown
    /\ UNCHANGED <<rrwebRecord, isRecording, recorders, eventBuffer, batchTimer, intervals,
                   inFlight, delivered, emitted, pendingRetry, configVars, trackVars, pageVars>>

\* startSessionReplay
StartSessionReplay ==
    /\ currentConfig.enableSessionReplay
    /\ rrwebRecord
    /\ ~isRecording
    /\ rrwebRecord' = rrwebRecord
    /\ \E recordThrows \in BOOLEAN : startRecording(recordThrows)
    /\ lastOp' = [op |-> "start", batch |-> <<>>]
    /\ tornDown' = FALSE
    /\ UNCHANGED <<loading, eventBuffer, inFlight, delivered, emitted,
                   pendingRetry, configVars, trackVars, pageVars>>

\* a stopSessionReplay without its early return: an idle stop flushes too
stopSessionReplayUnguarded(stopThrows) ==
    /\ IF stopThrows /\ isRecording
       THEN /\ lastOp' = [op |-> "stopThrew", batch |-> <<>>]
            /\ UNCHANGED <<recorders, isRecording, batchTimer, intervals, eventBuffer,
                           inFlight, pendingRetry>>
       ELSE /\ recorders' = 0
            /\ isRecording' = FALSE
            /\ clearBatchTimer
            /\ flushEvents(eventBuffer, "stop")
    /\ tornDown' = TRUE

\* the body of stopSessionReplay (cleanupSessionReplay delegates to it);
\* stopThrows is the recorder's stop function throwing, which happens before
\* any of the module's state is touched and leaves the call by its caller
stopSessionReplay(stopThrows) ==
    /\ IF ~isRecording
       THEN /\ lastOp' = [op |-> "stopIdle", batch |-> <<>>]
            /\ UNCHANGED <<recorders, isRecording, batchTimer, intervals, eventBuffer,
                           inFlight, pendingRetry>>
       ELSE IF stopThrows
       THEN /\ lastOp' = [op |-> "stopThrew", batch |-> <<>>]
            /\ UNCHANGED <<recorders, isRecording, batchTimer, intervals, eventBuffer,
                           inFlight, pendingRetry>>
       ELSE /\ recorders' = recorders - 1
            /\ isRecording' = FALSE
            /\ clearBatchTimer
            /\ flushEvents(eventBuffer, "stop")
    /\ tornDown' = TRUE

\* a call of stopSessionReplay
StopSessionReplay ==
    /\ \E stopThrows \in BOOLEAN : stopSessionReplay(stopThrows)
    /\ UNCHANGED <<rrwebRecord, loading, delivered, emitted, configVars, trackVars, pageVars>>

\* rybbit.cleanup: the listeners are removed, the recording is stopped and
\* the entry point's flag is cleared, unless the stop left by an exception;
\* the stored configuration is not touched
RybbitCleanup ==
    /\ lastRun = NoRun
    /\ cleanupAutoTracking
    /\ \E stopThrows \in BOOLEAN :
          /\ stopSessionReplay(stopThrows)
          /\ isInitialized' = (isInitialized /\ isRecording /\ stopThrows)
    /\ UNCHANGED <<internalConfig, calls, lastSet, rrwebRecord, loading, delivered,
                   emitted, trackVars, debounceVars, matcherVars, vitalsVars, identityVars, lconf, unsubscribed,
                   pageviewTracker, historyWraps, rafPending, currentPathname, lastRun>>

\* the interval callback armed by setupBatchTimer
TimerFires ==
    /\ intervals > 0
    /\ flushEvents(eventBuffer, "timer")
    /\ UNCHANGED tornDown
    /\ UNCHANGED <<rrwebRecord, loading, isRecording, recorders, batchTimer, intervals,
                   delivered, emitted, configVars, trackVars, pageVars>>

\* onReplayPageChange
OnReplayPageChange ==
    /\ isRecording
    /\ flushEvents(eventBuffer, "pageChange")
    /\ UNCHANGED tornDown
    /\ UNCHANGED <<rrwebRecord, loading, isRecording, recorders, batchTimer, intervals,
                   delivered, emitted, configVars, trackVars, pageVars>>

\* sendBatch resolved: response.ok
SendSucceeds(b) ==
    /\ b \in inFlight
    /\ inFlight' = inFlight \ {b}
    /\ delivered' = Append(delivered, b)
    /\ lastOp' = [op |-> "sendOk", batch |-> b]
    /\ UNCHANGED tornDown
    /\ UNCHANGED <<rrwebRecord, loading, isRecording, recorders, eventBuffer,
                   batchTimer, intervals, emitted, pendingRetry, configVars, trackVars, pageVars>>

\* a catch handler that pushes the failed frames at the back
RequeueAtBack(events, buf) == buf \o events

\* a catch handler that only logs: the failed frames are dropped
RequeueNothing(events, buf) == buf

\* the buffer after the catch handler of flushEvents: unshift(...events)
Requeue(events, buf) == events \o buf

\* sendBatch rejected (network error or non-2xx): the catch handler re-queues
SendFails(b) ==
    /\ b \in inFlight
    /\ inFlight' = inFlight \ {b}
    /\ eventBuffer' = Requeue(b, eventBuffer)
    /\ pendingRetry' = pendingRetry \cup Range(b)
    /\ lastOp' = [op |-> "sendFail", batch |-> b]
    /\ UNCHANGED tornDown
    /\ UNCHANGED <<rrwebRecord, loading, isRecording, recorders, batchTimer, intervals,
                   delivered, emitted, configVars, trackVars, pageVars>>

(***************************************************************************)
(* User identity: identify and clearUserId of the entry point.             *)
(***************************************************************************)
\* the ids the host identifies users by: plain, padded and blank
UserIds == { <<"u">>, <<" ", "v", " ">>, <<" ">> }

\* identify of core: a blank id is refused, any other is stored trimmed
identify(userId) ==
    customUserId' = (IF Trim(userId) = <<>> THEN customUserId ELSE Trim(userId))

\* updateReplayUserId
updateReplayUserId(userId) == currentUserId' = userId

\* clearUserId of core
clearUserId == customUserId' = NoUserId

\* rybbit.identify
RybbitIdentify(userId) ==
    /\ isInitialized
    /\ identify(userId)
    /\ updateReplayUserId(userId)
    /\ UNCHANGED <<configVars, replayVars, trackVars, debounceVars, listenerVars,
                   matcherVars, vitalsVars>>

\* rybbit.clearUserId
RybbitClearUserId ==
    /\ isInitialized
    /\ clearUserId
    /\ UNCHANGED <<currentUserId, configVars, replayVars, trackVars, debounceVars,
                   listenerVars, matcherVars, vitalsVars>>

(***************************************************************************)
(* Web-vitals collector.                                                   *)
(***************************************************************************)
\* the metric values the web-vitals library reports, zero among them
MetricValues == {[value |-> v] : v \in {0, 1}}

\* sendWebVitals, called for the given cause with the data as collected and
\* the timeouts still pending: one track("performance") call, the armed
\* timeout cleared
sendWebVitals(cause, data, pending) ==
    IF webVitalsSent
    THEN /\ vitalsTimers' = pending
         /\ UNCHANGED <<webVitalsSent, webVitalsTimeout, performanceEvents>>
    ELSE /\ webVitalsSent' = TRUE
         /\ vitalsTimers' = pending \ {webVitalsTimeout}
         /\ webVitalsTimeout' = 0
         /\ performanceEvents' = Append(performanceEvents,
                                        [cause |-> cause, webVitals |-> data])

\* checkAndSendWebVitals: send once every metric holds a value
checkAndSendWebVitals(data) ==
    IF ~webVitalsSent /\ \A m \in Metrics : data[m] # NULL
    THEN sendWebVitals("metrics", data, vitalsTimers)
    ELSE UNCHANGED <<webVitalsSent, webVitalsTimeout, vitalsTimers, performanceEvents>>

\* a collectMetric that stores the metric also after the data went out
collectMetricAfterSent(name, value) ==
    /\ vitalsInstalls > 0
    /\ webVitalsData' = [webVitalsData EXCEPT ![name] = value]
    /\ checkAndSendWebVitals(webVitalsData')
    /\ UNCHANGED <<vitalsInstalls, configVars, replayVars, trackVars, debounceVars,
                   listenerVars, matcherVars, identityVars>>

\* collectMetric, called by the web-vitals library with a metric it reports
collectMetric(name, value) ==
    /\ vitalsInstalls > 0
    /\ IF webVitalsSent
       THEN UNCHANGED <<webVitalsData, webVitalsSent, webVitalsTimeout, vitalsTimers,
                        performanceEvents>>
       ELSE /\ webVitalsData' = [webVitalsData EXCEPT ![name] = value]
            /\ checkAndSendWebVitals(webVitalsData')
    /\ UNCHANGED <<vitalsInstalls, configVars, replayVars, trackVars, debounceVars,
                   listenerVars, matcherVars, identityVars>>

\* initWebVitals; enabled is the trackWebVitals setting it reads from
\* currentConfig
InitWebVitals(enabled) ==
    /\ vitalsInstalls < MaxVitalsInits
    /\ IF ~enabled
       THEN UNCHANGED <<vitalsInstalls, webVitalsTimeout, vitalsTimers>>
       ELSE /\ vitalsInstalls' = vitalsInstalls + 1
            /\ webVitalsTimeout' = vitalsInstalls + 1
            /\ vitalsTimers' = vitalsTimers \cup {vitalsInstalls + 1}
    /\ UNCHANGED <<webVitalsData, webVitalsSent, performanceEvents, configVars,
                   replayVars, trackVars, debounceVars, listenerVars, matcherVars,
                   identityVars>>

\* the timeout callback armed by initWebVitals
WebVitalsTimeoutFires(t) ==
    /\ t \in vitalsTimers
    /\ sendWebVitals("timeout", webVitalsData, vitalsTimers \ {t})
    /\ UNCHANGED <<webVitalsData, vitalsInstalls, configVars, replayVars, trackVars,
                   debounceVars, listenerVars, matcherVars, identityVars>>

\* the beforeunload listener registered by initWebVitals
BeforeUnload ==
    /\ vitalsInstalls > 0
    /\ sendWebVitals("unload", webVitalsData, vitalsTimers)
    /\ UNCHANGED <<webVitalsData, vitalsInstalls, configVars, replayVars, trackVars,
                   debounceVars, listenerVars, matcherVars, identityVars>>

NextWebVitals ==
    \/ \E enabled \in BOOLEAN : InitWebVitals(enabled)
    \/ \E name \in Metrics, value \in MetricValues : collectMetric(name, value)
    \/ \E t \in vitalsTimers : WebVitalsTimeoutFires(t)
    \/ BeforeUnload

\* an initialised store, as the replay engine reads it
ReplayConfig(replay) == [DefaultConfig EXCEPT !.analyticsHost = <<"h">>,
                                              !.siteId = <<"s">>,
                                              !.enableSessionReplay = replay]

InitReplay ==
    /\ \E replay \in BOOLEAN : internalConfig = ReplayConfig(replay)
    /\ calls = <<>>
    /\ isInitialized = TRUE
    /\ lastSet = NoSet
    /\ rrwebRecord = FALSE
    /\ loading = 0
    /\ isRecording = FALSE
    /\ recorders = 0
    /\ eventBuffer = <<>>
    /\ batchTimer = FALSE
    /\ intervals = 0
    /\ inFlight = {}
    /\ delivered = <<>>
    /\ emitted = 0
    /\ lastOp = NoOp
    /\ pendingRetry = {}
    /\ tornDown = FALSE
    /\ TrackIdle
    /\ DebounceIdle /\ wait = 1
    /\ ListenersIdle
    /\ lastMatch = NoTest
    /\ IdentityIdle
    /\ VitalsIdle

NextReplay ==
    \/ InitSessionReplayCall
    \/ RrwebLoaded
    \/ RrwebLoadFailed
    \/ StartSessionReplay
    \/ StopSessionReplay
    \/ Emit
    \/ TimerFires
    \/ OnReplayPageChange
    \/ \E b \in inFlight : SendSucceeds(b)
    \/ \E b \in inFlight : SendFails(b)

SpecReplay == InitReplay /\ [][NextReplay]_vars

\* the replay engine of a page that identifies its users while recording
NextIdentity ==
    \/ InitSessionReplayCall
    \/ RrwebLoaded
    \/ Emit
    \/ TimerFires
    \/ OnReplayPageChange
    \/ StopSessionReplay
    \/ \E userId \in UserIds : RybbitIdentify(userId)
    \/ RybbitClearUserId
    \/ \E b \in inFlight : SendSucceeds(b)

SpecIdentity == InitReplay /\ [][NextIdentity]_vars

\* the web-vitals collector of an initialised page
SpecWebVitals == InitReplay /\ [][NextWebVitals]_vars

\* the replay engine under the scheduling of the page: the interval armed by
\* setInterval keeps firing while it is armed, and the network lets a send
\* that is retried again and again succeed at last
SpecReplayFair ==
    /\ InitReplay
    /\ [][NextReplay]_vars
    /\ WF_vars(TimerFires)
    /\ SF_vars(\E b \in inFlight : SendSucceeds(b))

(***************************************************************************)
(* The configuration store from module load on.                            *)
(***************************************************************************)
InitConfig ==
    /\ internalConfig = NULL
    /\ calls = [c \in CallIds |-> NewCall]
    /\ isInitialized = FALSE
    /\ lastSet = NoSet
    /\ rrwebRecord = FALSE
    /\ loading = 0
    /\ isRecording = FALSE
    /\ recorders = 0
    /\ eventBuffer = <<>>
    /\ batchTimer = FALSE
    /\ intervals = 0
    /\ inFlight = {}
    /\ delivered = <<>>
    /\ emitted = 0
    /\ lastOp = NoOp
    /\ pendingRetry = {}
    /\ tornDown = FALSE
    /\ TrackIdle
    /\ DebounceIdle /\ wait = 1
    /\ ListenersIdle
    /\ lastMatch = NoTest
    /\ IdentityIdle
    /\ VitalsIdle

\* the invocations are numbered in the order in which they are made
InOrder(c) == \A d \in CallIds : d < c => calls[d].pc # "new"

NextConfig ==
    \/ \E c \in CallIds, options \in OptionSet :
          InOrder(c) /\ InitializeConfigCall(c, options)
    \/ \E c \in CallIds, options \in OptionSet :
          InOrder(c) /\ RybbitInit(c, options)
    \/ \E c \in CallIds, outcome \in RemoteOutcomes : FetchSettles(c, outcome)

SpecConfig == InitConfig /\ [][NextConfig]_vars

(***************************************************************************)
(* The SDK over a page lifetime: initialization, assignments through the   *)
(* configuration proxy, and cleanup.                                       *)
(***************************************************************************)
NextLifecycle ==
    \/ \E c \in CallIds, options \in OptionSet :
          InOrder(c) /\ InitializeConfigCall(c, options)
    \/ \E c \in CallIds, options \in OptionSet :
          InOrder(c) /\ RybbitInit(c, options)
    \/ \E c \in CallIds, outcome \in RemoteOutcomes : FetchSettles(c, outcome)
    \/ \E field \in SetFields, strict \in BOOLEAN : SetCurrentConfig(field, strict)
    \/ RybbitCleanup

SpecLifecycle == InitConfig /\ [][NextLifecycle]_vars

(***************************************************************************)
(* The dispatcher on a loaded page.                                        *)
(***************************************************************************)
\* the pages a call may find: a plain path with a query, a path under /m, a
\* path /k, and /k with a hash
Locations ==
    { [pathname |-> <<"/", "a">>, search |-> <<"?", "x">>, hash |-> <<>>],
      [pathname |-> <<"/", "m", "/", "1">>, search |-> <<"?", "s">>, hash |-> <<>>],
      [pathname |-> <<"/", "k">>, search |-> <<>>, hash |-> <<>>],
      [pathname |-> <<"/", "k">>, search |-> <<"?", "x">>, hash |-> <<"#", "h">>] }

\* the skip and mask lists of the configurations tried
PatternLists ==
    { [skip |-> <<>>, mask |-> <<>>],
      [skip |-> << <<"/", "k">> >>,
       mask |-> << <<"/", "m", "/", "*">>, <<"/", "*", "*">> >>],
      [skip |-> << <<"/", "m", "/", "*">> >>,
       mask |-> << <<"/", "m", "/", "*">> >>] }

TrackConfig(lists, tq) ==
    [DefaultConfig EXCEPT !.analyticsHost = <<"h">>, !.siteId = <<"s">>,
                          !.skipPatterns = lists.skip, !.maskPatterns = lists.mask,
                          !.trackQuerystring = tq]

InitTrack ==
    /\ \/ internalConfig = NULL
       \/ \E lists \in PatternLists, tq \in BOOLEAN :
             internalConfig = TrackConfig(lists, tq)
    /\ calls = <<>>
    /\ isInitialized = (internalConfig # NULL)
    /\ lastSet = NoSet
    /\ rrwebRecord = FALSE
    /\ loading = 0
    /\ isRecording = FALSE
    /\ recorders = 0
    /\ eventBuffer = <<>>
    /\ batchTimer = FALSE
    /\ intervals = 0
    /\ inFlight = {}
    /\ delivered = <<>>
    /\ emitted = 0
    /\ lastOp = NoOp
    /\ pendingRetry = {}
    /\ tornDown = FALSE
    /\ storage \in {"absent", "present", "throws"}
    /\ globalOptOut \in BOOLEAN
    /\ isOptedOut = LoadOptOut(storage, globalOptOut)
    /\ location \in Locations
    /\ pendingFetches = 0
    /\ lastTrack = NoTrack
    /\ DebounceIdle /\ wait = 1
    /\ ListenersIdle
    /\ lastMatch = NoTest
    /\ IdentityIdle
    /\ VitalsIdle

NextTrack ==
    \/ \E eventType \in EventTypes, eventName \in EventNames,
          pathOverride \in Overrides, env \in TransportEnvs :
            Track(eventType, eventName, pathOverride, env)
    \/ \E eventType \in EventTypes, eventName \in EventNames,
          pathOverride \in Overrides, env \in TransportEnvs :
            TrackCore(eventType, eventName, pathOverride, env)
    \/ TrackReturns
    \/ \E ok \in BOOLEAN : FetchCompletes(ok)

SpecTrack == InitTrack /\ [][NextTrack]_vars

InitDebounce ==
    /\ internalConfig = NULL
    /\ calls = [c \in CallIds |-> NewCall]
    /\ isInitialized = FALSE
    /\ lastSet = NoSet
    /\ rrwebRecord = FALSE
    /\ loading = 0
    /\ isRecording = FALSE
    /\ recorders = 0
    /\ eventBuffer = <<>>
    /\ batchTimer = FALSE
    /\ intervals = 0
    /\ inFlight = {}
    /\ delivered = <<>>
    /\ emitted = 0
    /\ lastOp = NoOp
    /\ pendingRetry = {}
    /\ tornDown = FALSE
    /\ TrackIdle
    /\ DebounceIdle
    /\ wait \in Waits
    /\ ListenersIdle
    /\ lastMatch = NoTest
    /\ IdentityIdle
    /\ VitalsIdle

NextDebounce ==
    \/ \E args \in DebounceArgs : CallDebounced(args)
    \/ \E t \in timers : DebounceTimerFires(t)
    \/ Tick

SpecDebounce == InitDebounce /\ [][NextDebounce]_vars

\* the pattern lists of the page the registry runs on: /k is skipped, every
\* other path is masked
ListenerPatterns ==
    [skip |-> << <<"/", "k">> >>,
     mask |-> << <<"/", "m", "/", "*">>, <<"/", "*", "*">> >>]

\* the locations the page navigates between
ListenerLocations ==
    { [pathname |-> <<"/", "a">>, search |-> <<"?", "x">>, hash |-> <<>>],
      [pathname |-> <<"/", "k">>, search |-> <<>>, hash |-> <<>>],
      [pathname |-> <<"/", "k">>, search |-> <<"?", "x">>, hash |-> <<"#", "h">>] }

\* the registry on a page with an initialised SDK
InitListeners ==
    /\ internalConfig = TrackConfig(ListenerPatterns, TRUE)
    /\ calls = <<>>
    /\ isInitialized = TRUE
    /\ lastSet = NoSet
    /\ rrwebRecord = FALSE
    /\ loading = 0
    /\ isRecording = FALSE
    /\ recorders = 0
    /\ eventBuffer = <<>>
    /\ batchTimer = FALSE
    /\ intervals = 0
    /\ inFlight = {}
    /\ delivered = <<>>
    /\ emitted = 0
    /\ lastOp = NoOp
    /\ pendingRetry = {}
    /\ tornDown = FALSE
    /\ storage = "absent"
    /\ globalOptOut \in BOOLEAN
    /\ isOptedOut = LoadOptOut(storage, globalOptOut)
    /\ location = [pathname |-> <<"/", "a">>, search |-> <<"?", "x">>, hash |-> <<>>]
    /\ pendingFetches = 0
    /\ lastTrack = NoTrack
    /\ DebounceIdle /\ wait = 1
    /\ lastMatch = NoTest
    /\ IdentityIdle
    /\ VitalsIdle
    /\ lconf \in ListenerConfigs
    /\ unsubscribed = {}
    /\ isAutoTrackingSetup = FALSE
    /\ pageviewTracker = 0
    /\ historyWraps = 0
    /\ popstate = {}
    /\ hashchange = {}
    /\ rafPending = 0
    /\ currentPathname = <<>>
    /\ pageChangeCallbacks = <<>>
    /\ lastRun = NoRun

NextListeners ==
    \/ SetupAutoTracking
    \/ CleanupAutoTracking
    \/ \E id \in 1..MaxCallbacks : AddPageChangeCallback(id)
    \/ \E id \in 1..MaxCallbacks : RemovePageChangeCallback(id)
    \/ \E kind \in NavigationKinds, loc \in ListenerLocations : Navigate(kind, loc)
    \/ RafFires
    \/ \E t \in timers : TrackerTimerFires(t)
    \/ ListenerReturns

SpecListeners == InitListeners /\ [][NextListeners]_vars

\* the registry with the plain tracker and the history wrappers, as far as
\* the subscriptions of the host go: callbacks come and go between navigations
InitSubscriptions ==
    /\ InitListeners
    /\ lconf = [autoTrackPageviews |-> TRUE, debounce |-> 0, autoTrackSpaRoutes |-> TRUE]
    /\ ~globalOptOut

NextSubscriptions ==
    \/ SetupAutoTracking
    \/ \E id \in 1..MaxSubscribers :
          Len(pageChangeCallbacks) < MaxSubscribers /\ addPageChangeCallback(id)
    \/ \E id \in 1..MaxSubscribers : RemovePageChangeCallback(id)
    \/ \E loc \in ListenerLocations : Navigate("pushState", loc)
    \/ RafFires
    \/ ListenerReturns

SpecSubscriptions == InitSubscriptions /\ [][NextSubscriptions]_vars

\* the path segments the wildcard tests of utils.test.ts are built from
Segments ==
    { <<"a", "p", "i">>, <<"v", "1">>, <<"v", "2">>, <<"u", "s", "e", "r", "s">>,
      <<"u", "s", "e", "r", "s", ".", "j", "s", "o", "n">>,
      <<"u", "s", "e", "r", "s", "X", "j", "s", "o", "n">>, <<"1", "2", "3">> }

\* the path made of the given segments, each behind a slash
RECURSIVE PathOf(_)
PathOf(segs) ==
    IF segs = <<>> THEN <<>> ELSE <<"/">> \o Head(segs) \o PathOf(Tail(segs))

\* the patterns of the three wildcard tests: /api/*/users, /api/**/users and
\* /api/users.json
GlobPatterns ==
    { PathOf(<< <<"a", "p", "i">>, <<"*">>, <<"u", "s", "e", "r", "s">> >>),
      PathOf(<< <<"a", "p", "i">>, <<"*", "*">>, <<"u", "s", "e", "r", "s">> >>),
      PathOf(<< <<"a", "p", "i">>,
                <<"u", "s", "e", "r", "s", ".", "j", "s", "o", "n">> >>) }

\* the patterns of the regex-prefix tests: re:^/users/\d+$, re: and re:(
RegexBody == <<"^", "/", "u", "s", "e", "r", "s", "/", "\\", "d", "+", "$">>
RegexPrefix == <<"r", "e", ":">>
RegexPatterns == { RegexPrefix \o RegexBody, RegexPrefix, RegexPrefix \o <<"(">> }

\* the lists of the findMatchingPattern tests, in every order and length:
\* /health, /api/*/users and /api/**/users
ListedPatterns ==
    { PathOf(<< <<"h", "e", "a", "l", "t", "h">> >>),
      PathOf(<< <<"a", "p", "i">>, <<"*">>, <<"u", "s", "e", "r", "s">> >>),
      PathOf(<< <<"a", "p", "i">>, <<"*", "*">>, <<"u", "s", "e", "r", "s">> >>) }
SearchedLists == UNION { [1..n -> ListedPatterns] : n \in 0..MaxPatterns }

\* the paths the lists are searched for
ListedPaths ==
    { PathOf(<< <<"a", "p", "i">>, <<"v", "1">>, <<"u", "s", "e", "r", "s">> >>),
      PathOf(<< <<"a", "p", "i">>, <<"v", "1">>, <<"v", "2">>, <<"u", "s", "e", "r", "s">> >>),
      PathOf(<< <<"a", "p", "i">>, <<"u", "s", "e", "r", "s">> >>),
      PathOf(<< <<"h", "e", "a", "l", "t", "h">> >>),
      PathOf(<< <<"s", "t", "a", "t", "u", "s">> >>) }

\* the paths the patterns are tested against
GlobPaths ==
    { PathOf(segs) : segs \in UNION { [1..n -> Segments] : n \in 1..MaxSegments } }

InitMatcher ==
    /\ internalConfig = NULL
    /\ calls = [c \in CallIds |-> NewCall]
    /\ isInitialized = FALSE
    /\ lastSet = NoSet
    /\ rrwebRecord = FALSE
    /\ loading = 0
    /\ isRecording = FALSE
    /\ recorders = 0
    /\ eventBuffer = <<>>
    /\ batchTimer = FALSE
    /\ intervals = 0
    /\ inFlight = {}
    /\ delivered = <<>>
    /\ emitted = 0
    /\ lastOp = NoOp
    /\ pendingRetry = {}
    /\ tornDown = FALSE
    /\ TrackIdle
    /\ DebounceIdle /\ wait = 1
    /\ ListenersIdle
    /\ IdentityIdle
    /\ VitalsIdle
    /\ \/ \E pattern \in GlobPatterns \cup RegexPatterns, path \in GlobPaths :
             lastMatch = [NoTest EXCEPT !.op = "test", !.pattern = pattern, !.path = path]
       \/ \E patterns \in SearchedLists, path \in ListedPaths :
             lastMatch = [NoTest EXCEPT !.op = "find", !.patterns = patterns,
                                         !.path = path]

NextMatcher ==
    \/ TestPattern
    \/ FindPattern

SpecMatcher == InitMatcher /\ [][NextMatcher]_vars

(***************************************************************************)
(* Properties of the replay engine.                                        *)
(***************************************************************************)
Occurrences(seq, f) == Cardinality({i \in 1..Len(seq) : seq[i] = f})

\* occurrences of f in a set of batches
RECURSIVE InBatches(_, _)
InBatches(S, f) ==
    IF S = {} THEN 0
    ELSE LET b == CHOOSE x \in S : TRUE
         IN  Occurrences(b, f) + InBatches(S \ {b}, f)

\* the frames of a sequence of batches, in order
RECURSIVE Flatten(_)
Flatten(bs) == IF bs = <<>> THEN <<>> ELSE Head(bs) \o Flatten(Tail(bs))

\* how many places hold frame f: the live buffer, the in-flight batches and
\* the delivered batches together
Places(f) ==
    Occurrences(eventBuffer, f) + InBatches(inFlight, f)
        + Occurrences(Flatten(delivered), f)

\* C1: every emitted frame is in exactly one place at every moment (the live
\* buffer, one in-flight batch, or one delivered batch), and no frame that
\* was not emitted is anywhere: nothing is lost or duplicated by a retry.
C1_ExactlyOnePlace ==
    \A f \in Frames : Places(f) = IF f <= emitted THEN 1 ELSE 0

\* C1 witness: a send has just failed and been re-queued while another batch
\* is in flight and a third has been delivered.
C1_Witness ==
    /\ lastOp.op = "sendFail"
    /\ inFlight # {}
    /\ delivered # <<>>
    /\ eventBuffer # <<>>

\* C2: when a send rejects, the live buffer becomes exactly the failed
\* flush's frames followed by what the buffer held (the frames emitted since
\* the swap), and every re-queued frame stays in the buffer until a flush
\* takes it, so the next flush's batch contains all of them.
C2_RequeuedAtFront ==
    /\ [][lastOp'.op = "sendFail" /\ lastOp' # lastOp
            => eventBuffer' = lastOp'.batch \o eventBuffer]_vars
    /\ [](pendingRetry \subseteq Range(eventBuffer))
    /\ [][lastOp'.op \in {"timer", "threshold", "stop", "pageChange"}
            /\ lastOp'.batch # <<>>
            => pendingRetry \subseteq Range(lastOp'.batch)]_vars

\* C2 witness: a failed batch sits at the front of the buffer, ahead of a
\* frame emitted after the swap.
C2_Witness ==
    /\ lastOp.op = "sendFail"
    /\ Len(eventBuffer) > Len(lastOp.batch)
    /\ SubSeq(eventBuffer, 1, Len(lastOp.batch)) = lastOp.batch
    /\ eventBuffer[Len(eventBuffer)] > lastOp.batch[Len(lastOp.batch)]

\* C3: the live buffer lists its frames in emission order in every reachable
\* state, also with several flushes in flight failing in any order.
C3_BufferInEmissionOrder ==
    \A i, j \in 1..Len(eventBuffer) : i < j => eventBuffer[i] < eventBuffer[j]

C15_TeardownStaysDown ==
    tornDown => (~isRecording /\ ~batchTimer)

(***************************************************************************)
(* Properties of the configuration store.                                  *)
(***************************************************************************)
Succeeded == {c \in CallIds : calls[c].result = "true"}

\* C4: a call of initializeConfig made after an earlier call has succeeded
\* returns false at once and leaves the stored configuration as it was.
C4_ReinitRejected ==
    [][\A c \in CallIds :
          (/\ calls[c].pc = "new"
           /\ calls'[c].pc # "new"
           /\ calls'[c].result # "skipped"
           /\ Succeeded # {})
          => (/\ calls'[c].pc = "done"
              /\ calls'[c].result = "false"
              /\ internalConfig' = internalConfig)]_vars

\* C4 witness: a call with a valid configuration, different from the stored
\* one, has been rejected after another call succeeded.
C4_Witness ==
    \E c, d \in CallIds :
        /\ calls[c].result = "true"
        /\ calls[d].result = "false"
        /\ ValidOptions(calls[d].options)
        /\ calls[d].options.siteId # internalConfig.siteId

\* C5: over a page lifetime at most one init / initializeConfig call returns
\* success, and once stored the configuration is never replaced, also when
\* calls overlap while an earlier call's remote-config fetch is pending.
C5_AtMostOneSuccess ==
    /\ [](Cardinality(Succeeded) <= 1)
    /\ [][internalConfig # NULL => internalConfig' = internalConfig]_vars

(***************************************************************************)
(* Properties of the dispatcher.                                           *)
(***************************************************************************)
Count(seq, S) == Cardinality({i \in 1..Len(seq) : seq[i] \in S})

\* the path the last call resolved, before classification
LastResolved ==
    IF lastTrack.module = "core"
    THEN ResolvePathCore(lastTrack.eventType, lastTrack.pathOverride, location, currentConfig)
    ELSE ResolvePath(lastTrack.eventType, lastTrack.pathOverride, location, currentConfig)

LastSkipMatch == findMatchingPattern(LastResolved.pathname, currentConfig.skipPatterns)
LastMaskMatch == findMatchingPattern(LastResolved.pathname, currentConfig.maskPatterns)

\* C6: a track call makes at most one beacon call and at most one fetch call,
\* at most one of them an accepted delivery; fetch is issued only when the
\* beacon primitive is missing or returned false, never after the beacon
\* accepted the payload; and the settling of a fetch, failed or not, issues
\* no further transport call.
C6_AtMostOneDelivery ==
    /\ [](/\ Count(lastTrack.transport, {"beacon:accepted", "beacon:rejected", "beacon:threw"}) <= 1
          /\ Count(lastTrack.transport, {"fetch:issued", "fetch:threw"}) <= 1
          /\ Count(lastTrack.transport, {"beacon:accepted", "fetch:issued"}) <= 1
          /\ Count(lastTrack.transport, {"fetch:issued", "fetch:threw"}) > 0
               => lastTrack.env \in {"noBeacon", "noBeaconFetchThrows",
                                     "beaconRejects", "beaconRejectsFetchThrows"}
          /\ lastTrack.env = "beaconAccepts"
               => lastTrack.transport \in {<<>>, <<"beacon:accepted">>})
    /\ [][pendingFetches' < pendingFetches
            => lastTrack' = lastTrack /\ pendingFetches' = pendingFetches - 1]_vars

\* C6 witness: the beacon returned false and the call fell back to one fetch.
C6_Witness ==
    /\ lastTrack.env = "beaconRejects"
    /\ lastTrack.transport = <<"beacon:rejected", "fetch:issued">>
    /\ pendingFetches > 0

\* C7: when the disable-rybbit key was in storage or the page had set
\* __RYBBIT_OPTOUT__ when the module loaded, no track call of any event type
\* invokes the transport, beacon or fetch.
C7_OptOutSilent ==
    (storage = "present" \/ globalOptOut)
        => /\ pendingFetches = 0
           /\ lastTrack.transport = <<>>
           /\ lastTrack.called => lastTrack.stage = "optedOut"

\* C7 witness: with only the page's flag set, a named performance event was
\* tracked on an initialised SDK and nothing was sent.
C7_Witness ==
    /\ globalOptOut
    /\ storage = "absent"
    /\ internalConfig # NULL
    /\ lastTrack.called
    /\ lastTrack.eventType = "performance"
    /\ lastTrack.eventName # <<>>

\* C8: track("custom_event") without an event name never invokes the
\* transport, whatever the configuration and the page.
C8_CustomEventNeedsName ==
    (lastTrack.called /\ lastTrack.eventType = "custom_event" /\ lastTrack.eventName = <<>>)
        => /\ lastTrack.transport = <<>>
           /\ lastTrack.payload = NoPayload

\* C8 witness: a custom event without a name was refused by the name check
\* itself: the SDK is initialised, not opted out, and the path is not skipped.
C8_Witness ==
    /\ lastTrack.called
    /\ lastTrack.eventType = "custom_event"
    /\ lastTrack.eventName = <<>>
    /\ lastTrack.stage = "noName"
    /\ ~LastSkipMatch.found

\* C9: every delivered event whose resolved path matches a mask pattern
\* carries the first matching pattern's text as pathname and an empty
\* querystring, whatever its event type.
C9_MaskedNeverLeaks ==
    (lastTrack.stage = "sent" /\ LastMaskMatch.found)
        => /\ lastTrack.payload.pathname = LastMaskMatch.pattern
           /\ lastTrack.payload.querystring = <<>>

\* C10: a call that gets as far as classification with a resolved path that
\* matches a skip pattern invokes no transport when its type is not
\* performance, also when the path matches a mask pattern too; a performance
\* event is not suppressed by the skip list and goes to the transport.
C10_SkipSuppresses ==
    (lastTrack.called /\ LastSkipMatch.found)
        => /\ lastTrack.eventType # "performance" => lastTrack.transport = <<>>
           /\ (lastTrack.eventType # "performance"
                 /\ lastTrack.stage \notin {"optedOut", "noConfig", "noName"})
                => lastTrack.stage = "skipped"
           /\ (lastTrack.eventType = "performance"
                 /\ lastTrack.stage \notin {"optedOut", "noConfig", "noName", "threw"})
                => lastTrack.stage = "sent" /\ lastTrack.transport # <<>>

\* C10 witness: a performance event on a path that matches a skip pattern
\* has been handed to the transport.
C10_Witness ==
    /\ lastTrack.called
    /\ lastTrack.eventType = "performance"
    /\ LastSkipMatch.found
    /\ lastTrack.stage = "sent"
    /\ lastTrack.transport # <<>>

(***************************************************************************)
(* Properties of the path override.                                        *)
(***************************************************************************)
\* an override the claim calls valid: after trimming, a string that starts
\* with "/" or an absolute http(s) URL with a host
ValidOverride(o) ==
    LET t == Trim(o)
    IN  t # <<>> /\ OverrideWellFormed(t) /\ ~UrlThrows(t)

\* the number of leading characters of t that are its scheme and authority
AuthorityLength(t) ==
    IF t[1] = "/" THEN 0
    ELSE LET s == IF StartsWith(t, HttpsScheme) THEN Len(HttpsScheme) ELSE Len(HttpScheme)
         IN  CHOOSE a \in s..Len(t) :
                /\ \A i \in (s + 1)..a : t[i] \notin {"/", "?", "#"}
                /\ a < Len(t) => t[a + 1] \in {"/", "?", "#"}

\* p and q are the override's own pathname and query string: what follows the
\* authority is a path without "?" and "#", then a query, then a fragment
IsOwnSplit(o, p, q) ==
    LET t == Trim(o)
        rest == SubSeq(t, AuthorityLength(t) + 1, Len(t))
    IN  \E i \in 0..Len(rest) : \E j \in i..Len(rest) :
            LET pbody == SubSeq(rest, 1, i)
                qbody == SubSeq(rest, i + 1, j)
                hbody == SubSeq(rest, j + 1, Len(rest))
            IN  /\ \A k \in 1..Len(pbody) : pbody[k] \notin {"?", "#"}
                /\ qbody # <<>> => qbody[1] = "?"
                /\ \A k \in 1..Len(qbody) : qbody[k] # "#"
                /\ hbody # <<>> => hbody[1] = "#"
                /\ p = (IF pbody = <<>> THEN <<"/">> ELSE pbody)
                /\ q = (IF Len(qbody) <= 1 THEN <<>> ELSE qbody)

C12_UnusableOverrideFallsBack ==
    (/\ lastTrack.called
     /\ lastTrack.eventType = "pageview"
     /\ Trim(lastTrack.pathOverride) # <<>>
     /\ ~OverrideWellFormed(Trim(lastTrack.pathOverride))
     /\ lastTrack.stage \notin {"optedOut", "noConfig", "threw"}
     /\ ~findMatchingPattern(getPathname(location), currentConfig.skipPatterns).found
     /\ ~findMatchingPattern(getPathname(location), currentConfig.maskPatterns).found)
        => /\ lastTrack.stage = "sent"
           /\ lastTrack.payload.pathname = getPathname(location)
           /\ lastTrack.payload.querystring =
                  (IF currentConfig.trackQuerystring THEN location.search ELSE <<>>)

(***************************************************************************)
(* Properties of debounce.                                                 *)
(***************************************************************************)
\* the index of the next call of the debounced function after entry i, or 0
NextCall(i) ==
    IF \E k \in (i + 1)..Len(dlog) : dlog[k].kind = "call"
    THEN CHOOSE k \in (i + 1)..Len(dlog) :
            /\ dlog[k].kind = "call"
            /\ \A m \in (i + 1)..(k - 1) : dlog[m].kind # "call"
    ELSE 0

\* C13: for wait > 0, every call of func comes right after the last call of
\* a run, wait after it and with its arguments; a call followed by another
\* less than wait later produces no call of func of its own; a call followed
\* by the next one more than wait later, or by none while more than wait has
\* passed, has produced its own call of func.
C13_DebounceCollapsesRuns ==
    /\ wait > 0
    /\ \A i \in 1..Len(dlog) :
          dlog[i].kind = "func"
            => /\ i > 1
               /\ dlog[i - 1].kind = "call"
               /\ dlog[i].args = dlog[i - 1].args
               /\ dlog[i].at = dlog[i - 1].at + wait
    /\ \A j \in 1..Len(dlog) :
          dlog[j].kind = "call"
            => LET n == NextCall(j)
               IN  /\ (n # 0 /\ dlog[n].at - dlog[j].at < wait) => n = j + 1
                   /\ (n # 0 /\ dlog[n].at - dlog[j].at > wait)
                        => (n = j + 2 /\ dlog[j + 1].kind = "func")
                   /\ (n = 0 /\ clock > dlog[j].at + wait)
                        => (Len(dlog) = j + 1 /\ dlog[j + 1].kind = "func")

\* C13 witness: two calls less than wait apart with different arguments gave
\* one call of func with the second call's arguments, and a third call made
\* more than wait after the second gave a call of func of its own.
C13_Witness ==
    /\ Len(dlog) = 5
    /\ dlog[1].kind = "call" /\ dlog[2].kind = "call" /\ dlog[3].kind = "func"
    /\ dlog[4].kind = "call" /\ dlog[5].kind = "func"
    /\ dlog[1].args = "first" /\ dlog[2].args = "second" /\ dlog[3].args = "second"
    /\ dlog[2].at - dlog[1].at < wait
    /\ dlog[4].at - dlog[2].at > wait
    /\ dlog[5].at = dlog[4].at + wait

(***************************************************************************)
(* Properties of the listener registry.                                    *)
(***************************************************************************)
\* C16: an event handled while the registry is uninstalled (cleanupAutoTracking
\* has returned and setupAutoTracking has not installed it again) dispatches
\* no pageview, be it a history.pushState / replaceState call, a popstate or
\* hashchange event, a debounce timer or an animation-frame callback.
C16_NoDispatchAfterUninstall ==
    (lastRun.source # "none" /\ ~lastRun.installed) => lastRun.tracks = 0

\* the pageview triggers one navigation of this kind produces after the
\* first install
TriggersOfFirstInstall(kind) ==
    IF kind = "hashchange" \/ lconf.autoTrackSpaRoutes THEN 1 ELSE 0

\* C17: with the registry installed, also for the second time, one
\* navigation produces as many pageview triggers as after the first install,
\* one, and the history entry points carry one wrapper.
C17_ReinstallTriggersOnce ==
    /\ historyWraps <= 1
    /\ (lastRun.installed /\ lastRun.source \in NavigationKinds)
          => lastRun.triggers = TriggersOfFirstInstall(lastRun.source)

\* C18: when the body of the pageview tracker runs, it resolves the current
\* pathname; if that differs from the last-observed one every registered
\* callback is invoked once, in order, with (new path, previous path), and
\* if it does not differ no callback is invoked; what track then does with
\* the pageview plays no part.
C18_CallbacksOnChange ==
    lastRun.runs >= 1
        => /\ lastRun.path = getPathname(location)
           /\ currentPathname = lastRun.path
           /\ IF lastRun.before = lastRun.path
              THEN lastRun.notes = <<>>
              ELSE /\ Len(lastRun.notes) = Len(lastRun.registered)
                   /\ \A i \in 1..Len(lastRun.notes) :
                         lastRun.notes[i] = [cb |-> lastRun.registered[i].id,
                                             new |-> lastRun.path,
                                             prev |-> lastRun.before]

\* C18 witness: a navigation to a skipped path changed the pathname and both
\* registered callbacks were invoked, although the pageview was not sent.
C18_Witness ==
    /\ lastRun.runs >= 1
    /\ lastRun.source \in NavigationKinds
    /\ lastRun.before # lastRun.path
    /\ lastRun.before # <<>>
    /\ Len(lastRun.registered) = 2
    /\ Len(lastRun.notes) = 2
    /\ lastRun.stage = "skipped"

\* C19: when a registered callback throws during a page change, the
\* callbacks registered after it are invoked all the same, track("pageview")
\* is called once for each run of the tracker, and no exception leaves the
\* tracker towards the code that caused the navigation.
C19_ThrowingCallbackContained ==
    (/\ lastRun.runs >= 1
     /\ lastRun.before # lastRun.path
     /\ \E i \in 1..Len(lastRun.registered) : lastRun.registered[i].throws)
        => /\ \A i \in 1..Len(lastRun.registered) :
                 \E k \in 1..Len(lastRun.notes) :
                     lastRun.notes[k].cb = lastRun.registered[i].id
           /\ lastRun.tracks = lastRun.runs
           /\ ~lastRun.escaped

\* C19 witness: the first of two registered callbacks throws; the second was
\* invoked and the pageview was dispatched.
C19_Witness ==
    /\ lastRun.runs >= 1
    /\ Len(lastRun.registered) = 2
    /\ lastRun.registered[1].throws
    /\ ~lastRun.registered[2].throws
    /\ Len(lastRun.notes) = 2
    /\ lastRun.notes[2].cb = lastRun.registered[2].id
    /\ lastRun.tracks >= 1
    /\ lastRun.stage = "sent"

(***************************************************************************)
(* Properties of the pattern matcher.                                      *)
(***************************************************************************)
\* a pattern or a path cut at its slashes
RECURSIVE Split(_)
Split(s) ==
    IF s = <<>> THEN << <<>> >>
    ELSE IF Head(s) = "/" THEN << <<>> >> \o Split(Tail(s))
    ELSE LET rest == Split(Tail(s))
         IN  << <<Head(s)>> \o Head(rest) >> \o Tail(rest)

\* the stated meaning of a glob, segment by segment: * is exactly one
\* non-empty segment, ** is any number of segments, none included, and
\* every other segment stands for itself
RECURSIVE GlobAccepts(_, _)
GlobAccepts(pat, path) ==
    IF pat = <<>> THEN path = <<>>
    ELSE IF Head(pat) = <<"*", "*">>
    THEN \E k \in 0..Len(path) : GlobAccepts(Tail(pat), Drop(path, k))
    ELSE IF Head(pat) = <<"*">>
    THEN /\ path # <<>>
         /\ Head(path) # <<>>
         /\ GlobAccepts(Tail(pat), Tail(path))
    ELSE /\ path # <<>>
         /\ Head(path) = Head(pat)
         /\ GlobAccepts(Tail(pat), Tail(path))

\* C20: the matcher patternToRegex compiles is anchored and accepts a path
\* exactly when the glob does, with * standing for exactly one non-empty
\* segment, ** for any number of segments including none, and every other
\* character for itself; so /api/**/users accepts /api/users
C20_GlobSemantics ==
    (lastMatch.applied /\ lastMatch.op = "test" /\ lastMatch.pattern \in GlobPatterns) =>
        lastMatch.result = GlobAccepts(Split(lastMatch.pattern), Split(lastMatch.path))

\* the patterns of the searched list that accept the path, by position
Accepting ==
    { i \in 1..Len(lastMatch.patterns) :
        RegexTest(patternToRegex(lastMatch.patterns[i]), lastMatch.path) }

\* C21: findMatchingPattern returns the first pattern, in list order, whose
\* matcher accepts the path, also when a later pattern accepts it too, and
\* returns null when no pattern accepts or the list is empty
C21_FirstMatchWins ==
    (lastMatch.applied /\ lastMatch.op = "find") =>
        IF Accepting = {}
        THEN lastMatch.match = NoMatch
        ELSE /\ lastMatch.match.found
             /\ \E i \in Accepting :
                    /\ \A j \in Accepting : i <= j
                    /\ lastMatch.match.pattern = lastMatch.patterns[i]

\* a search where two different patterns of the list accept the path
C21_Witness ==
    /\ lastMatch.applied
    /\ lastMatch.op = "find"
    /\ \E i, j \in Accepting :
          /\ i < j
          /\ lastMatch.patterns[i] # lastMatch.patterns[j]
          /\ lastMatch.match.pattern = lastMatch.patterns[i]

\* what the regular expression ^/users/\d+$ accepts
UsersDigits(path) ==
    \E n \in 1..Len(path) :
        /\ path = <<"/", "u", "s", "e", "r", "s", "/">> \o SubSeq(path, 8, 7 + n)
        /\ \A i \in 8..(7 + n) : path[i] \in {"0", "1", "2", "3", "4", "5", "6", "7", "8", "9"}

\* C22: a pattern re:<body> is compiled from the body as a regular
\* expression; an empty or malformed body makes patternToRegex return null,
\* and such a pattern accepts no path
C22_RegexPrefix ==
    (lastMatch.applied /\ lastMatch.op = "test" /\ lastMatch.pattern \in RegexPatterns) =>
        IF lastMatch.pattern = RegexPrefix \o RegexBody
        THEN lastMatch.result = UsersDigits(lastMatch.path)
        ELSE lastMatch.isNull /\ ~lastMatch.result

(***************************************************************************)
(* Properties of the configuration store, continued.                       *)
(***************************************************************************)
\* the options the store must refuse: no object, or a missing or blank
\* analyticsHost or siteId
Refused(o) ==
    \/ "notObject" \in DOMAIN o
    \/ "analyticsHost" \notin DOMAIN o
    \/ "siteId" \notin DOMAIN o
    \/ \A i \in 1..Len(o.analyticsHost) : o.analyticsHost[i] = " "
    \/ \A i \in 1..Len(o.siteId) : o.siteId[i] = " "

\* call c has just entered initializeConfig
Enters(c) ==
    /\ calls[c].pc = "new"
    /\ calls'[c].pc # "new"
    /\ calls'[c].result # "skipped"

\* call c has just resumed after its remote-config fetch
Settles(c) == calls[c].pc = "fetching" /\ calls'[c].pc = "done"

\* C23: an initializeConfig call with options that are no object, or lack a
\* non-blank analyticsHost or siteId, returns false and changes no state:
\* the store and the reads through it stay as they were; and a call with a
\* valid configuration made while the store is still empty is not refused
C23_FailureChangesNothing ==
    /\ [][\A c \in CallIds :
            (Enters(c) /\ Refused(calls'[c].options))
            => (/\ calls'[c].pc = "done"
                /\ calls'[c].result = "false"
                /\ internalConfig' = internalConfig
                /\ isInitialized' = isInitialized
                /\ currentConfig' = currentConfig)]_vars
    /\ [][\A c \in CallIds :
            (/\ Enters(c)
             /\ ~Refused(calls'[c].options)
             /\ internalConfig = NULL
             /\ \E d \in CallIds : calls[d].result = "false" /\ Refused(calls[d].options))
            => calls'[c].pc = "fetching"]_vars

\* C23 witness: one call was refused for its options, the store reads the
\* defaults, and a later call with a valid configuration is under way
C23_Witness ==
    \E c, d \in CallIds :
        /\ calls[c].result = "false"
        /\ Refused(calls[c].options)
        /\ "siteId" \in DOMAIN calls[c].options
        /\ internalConfig = NULL
        /\ currentConfig = DefaultConfig
        /\ calls[d].pc = "fetching"

\* C24: once a call has succeeded, the value read through currentConfig for
\* every field stays the same for the rest of the page lifetime, and an
\* assignment through currentConfig is rejected and changes no field
C24_FrozenAfterSuccess ==
    /\ [][(\E c \in CallIds : calls[c].result = "true")
            => \A f \in DOMAIN currentConfig : currentConfig'[f] = currentConfig[f]]_vars
    /\ [][lastSet' # lastSet
            => (/\ ~lastSet'.returned
                /\ currentConfig' = currentConfig)]_vars

\* the remotely controllable toggles and the names the remote body uses
Toggles ==
    {"autoTrackPageview", "autoTrackSpa", "trackQuerystring", "trackOutbound",
     "enableWebVitals", "trackErrors", "enableSessionReplay"}
RemoteName(f) ==
    CASE f = "autoTrackPageview" -> "trackInitialPageView"
      [] f = "autoTrackSpa" -> "trackSpaNavigation"
      [] f = "trackQuerystring" -> "trackUrlParams"
      [] f = "trackOutbound" -> "trackOutbound"
      [] f = "enableWebVitals" -> "webVitals"
      [] f = "trackErrors" -> "trackErrors"
      [] f = "enableSessionReplay" -> "sessionReplay"

\* the built-in default of a toggle
BuiltIn(f) == f \in {"autoTrackPageview", "autoTrackSpa", "trackQuerystring", "trackOutbound"}

\* explicit caller option, else remote value, else built-in default
Precedence(options, outcome, f) ==
    IF f \in DOMAIN options THEN options[f]
    ELSE IF outcome.kind = "ok" /\ RemoteName(f) \in DOMAIN outcome.body
    THEN outcome.body[RemoteName(f)]
    ELSE BuiltIn(f)

\* C25: every remotely controllable toggle is initialized to the caller's
\* explicit option when one is given, otherwise to the remote value when the
\* fetch succeeded and supplied it, otherwise to the built-in default
C25_CallerOverRemoteOverDefault ==
    [][\A c \in CallIds :
          Settles(c)
          => \A f \in Toggles :
                internalConfig'[f] = Precedence(calls'[c].options, calls'[c].outcome, f)]_vars

\* the remote-config fetch of the call failed: rejected, aborted by the
\* timeout, or answered with a non-success status
RemoteFailed(outcome) == outcome.kind \in {"reject", "abort", "non2xx"}

\* C26: when the remote-config fetch rejects, is aborted or answers with a
\* non-success status, initializeConfig still succeeds, every remote
\* controlled field takes its built-in default, and the caller's local
\* fields are kept
C26_RemoteFailureFallsBack ==
    [][\A c \in CallIds :
          (Settles(c) /\ RemoteFailed(calls'[c].outcome))
          => LET o == calls'[c].options
             IN  /\ calls'[c].result = "true"
                 /\ \A f \in Toggles : internalConfig'[f] = BuiltIn(f)
                 /\ internalConfig'.siteId = o.siteId
                 /\ o.analyticsHost[Len(o.analyticsHost)] # "/"
                        => internalConfig'.analyticsHost = o.analyticsHost
                 /\ ("debounceDuration" \in DOMAIN o /\ o.debounceDuration >= 0)
                        => internalConfig'.debounceDuration = o.debounceDuration
                 /\ \A f \in {"skipPatterns", "maskPatterns"} :
                        (f \in DOMAIN o /\ o[f].array) => internalConfig'[f] = o[f].items]_vars

\* C26 witness: a call that gave a debounce duration and a skip list has
\* succeeded although its fetch was answered with an error status and a body
C26_Witness ==
    \E c \in CallIds :
        /\ calls[c].result = "true"
        /\ calls[c].outcome.kind = "non2xx"
        /\ calls[c].outcome.body # <<>>
        /\ "skipPatterns" \in DOMAIN calls[c].options
        /\ internalConfig.skipPatterns = calls[c].options.skipPatterns.items
        /\ internalConfig.debounceDuration = calls[c].options.debounceDuration
        /\ internalConfig.trackQuerystring

\* C27: every successfully initialized configuration is normalized: the
\* endpoint has no trailing slash, the debounce duration is max(0, requested)
\* or the default when none is given, and a skip or mask option that is no
\* array is stored as the empty list
C27_Normalized ==
    [][\A c \in CallIds :
          Settles(c)
          => LET o == calls'[c].options
                 host == internalConfig'.analyticsHost
             IN  /\ host = <<>> \/ host[Len(host)] # "/"
                 /\ internalConfig'.debounceDuration =
                        (IF "debounceDuration" \in DOMAIN o
                         THEN (IF o.debounceDuration < 0 THEN 0 ELSE o.debounceDuration)
                         ELSE DefaultConfig.debounceDuration)
                 /\ \A f \in {"skipPatterns", "maskPatterns"} :
                        (f \in DOMAIN o /\ ~o[f].array) => internalConfig'[f] = <<>>]_vars

\* C29: after cleanup(), an init() call with a valid configuration is carried
\* out: it is not refused, and it ends with the SDK initialized again
C29_ReinitAfterCleanup ==
    /\ [][\A c \in CallIds :
            (/\ tornDown
             /\ \A d \in CallIds : calls[d].via \in {"none", "init"}
             /\ calls[c].pc = "new"
             /\ calls'[c].pc # "new"
             /\ calls'[c].via = "init"
             /\ ~Refused(calls'[c].options))
            => calls'[c].pc = "fetching"]_vars
    /\ [][\A c \in CallIds :
            (Settles(c) /\ calls[c].via = "init") => isInitialized']_vars

(***************************************************************************)
(* Properties of the public operations.                                    *)
(***************************************************************************)
\* C28: no public operation lets an exception escape to the host page:
\* track, stopSessionReplay / cleanup and the page-change notification
\* return normally also when URL parsing, serialization, the beacon or
\* fetch call, the recorder's stop function or a subscriber callback throws
C28_NoExceptionEscapes ==
    /\ lastOp.op # "stopThrew"
    /\ ~lastRun.escaped
    /\ lastTrack.called =>
          lastTrack.stage \in {"optedOut", "noConfig", "noName", "skipped", "threw", "sent"}

\* C30: a track call for a performance or error event without an event name
\* is rejected: it calls no transport
C30_NamelessRejected ==
    (/\ lastTrack.called
     /\ lastTrack.eventType \in {"performance", "error"}
     /\ lastTrack.eventName = <<>>)
    => (lastTrack.stage # "sent" /\ lastTrack.transport = <<>>)

(***************************************************************************)
(* Properties of the replay engine's recorder, timer and buffer.           *)
(***************************************************************************)
\* C31: the external recorder is never started while recording is already
\* active or while replay is disabled by configuration, so after any sequence
\* of init / start / stop calls at most one recorder instance is active
C31_AtMostOneRecorder ==
    /\ [](recorders <= 1)
    /\ [][recorders' > recorders
            => (~isRecording /\ recorders = 0 /\ internalConfig.enableSessionReplay)]_vars

\* C31 witness: a second load of the recorder library resolved while the
\* recorder started by the first was running with frames it emitted still
\* buffered, and one recorder is active
C31_Witness ==
    /\ lastOp.op = "loaded"
    /\ recorders = 1
    /\ isRecording
    /\ eventBuffer # <<>>
    /\ pendingRetry = {}

\* C32: stopSessionReplay (and cleanup) called while recording is not active
\* changes no replay state and issues no send, so repeated stops have the
\* effect of one
C32_IdleStopChangesNothing ==
    [][(~isRecording /\ lastOp'.op \in {"stop", "stopIdle", "stopThrew"})
          => UNCHANGED <<rrwebRecord, loading, isRecording, recorders, eventBuffer,
                         batchTimer, intervals, inFlight, delivered, emitted>>]_vars

\* C32 witness: a stop was called while idle with frames of a failed send
\* back in the buffer, and nothing is being sent
C32_Witness ==
    /\ lastOp.op = "stopIdle"
    /\ ~isRecording
    /\ eventBuffer # <<>>
    /\ inFlight = {}

\* C33: whenever an emitted frame brings the live buffer to the size
\* threshold or beyond, the whole buffer is flushed in that same step, so
\* the buffer holds fewer frames than the threshold after every emission
C33_FlushAtThreshold ==
    [][emitted' > emitted
          => /\ Len(eventBuffer') < FlushThreshold
             /\ Len(eventBuffer) + 1 >= FlushThreshold
                   => /\ eventBuffer' = <<>>
                      /\ Append(eventBuffer, emitted') \in inFlight'
                      /\ inFlight' = inFlight \cup {Append(eventBuffer, emitted')}]_vars

\* C33 witness: an emission on top of re-queued frames took the buffer past
\* the threshold and the whole of it went out in one batch
C33_Witness ==
    /\ lastOp.op = "threshold"
    /\ Len(lastOp.batch) > FlushThreshold
    /\ lastOp.batch \in inFlight
    /\ eventBuffer = <<>>

\* C37: once stopSessionReplay has been called and every in-flight send has
\* completed, successfully or not, the live buffer is empty: no frame stays
\* buffered with no timer and no later flush to send it
C37_NothingLeftAfterStop ==
    (/\ tornDown
     /\ ~isRecording
     /\ intervals = 0
     /\ loading = 0
     /\ inFlight = {})
    => eventBuffer = <<>>

\* C39: the periodic flush timer is armed exactly when recording is active:
\* between operations batchTimer is set if and only if isRecording is true,
\* and at most one interval timer exists
C39_TimerIffRecording ==
    /\ batchTimer <=> isRecording
    /\ intervals = (IF isRecording THEN 1 ELSE 0)

\* C39 witness: recording was started again by startSessionReplay after
\* batches of an earlier recording went out, and one interval is armed
C39_Witness ==
    /\ lastOp.op = "start"
    /\ isRecording
    /\ batchTimer
    /\ intervals = 1
    /\ delivered # <<>>

\* the frames of the batches whose send succeeded
DeliveredFrames == UNION {Range(delivered[i]) : i \in 1..Len(delivered)}

\* C38: while recording stays active, if every send succeeds at last after
\* finitely many failures, every emitted frame is eventually part of a
\* successfully delivered batch
C38_EveryFrameDelivered ==
    \A f \in 1..MaxFrames :
        (emitted >= f /\ isRecording) ~> (f \in DeliveredFrames \/ ~isRecording)

\* C38 witness: recording has been active throughout, a send failed and its
\* frames went out again with later ones in a batch longer than the
\* threshold, and with its delivery every emitted frame is delivered
C38_Witness ==
    /\ isRecording
    /\ ~tornDown
    /\ lastOp.op = "sendOk"
    /\ Len(lastOp.batch) > FlushThreshold
    /\ emitted = MaxFrames
    /\ DeliveredFrames = 1..emitted

(***************************************************************************)
(* Properties of installing the registry and of unsubscribing.             *)
(***************************************************************************)
\* C34: each install that takes effect produces exactly one initial
\* pageview trigger, issued from the next animation-frame callback and not
\* synchronously inside setupAutoTracking; a setupAutoTracking call made
\* while already installed produces no trigger and installs nothing again
C34_OneInitialTrigger ==
    /\ [][(~isAutoTrackingSetup /\ isAutoTrackingSetup')
            => /\ rafPending' = rafPending + 1
               /\ lastRun' = NoRun
               /\ UNCHANGED <<timers, timeout>>]_vars
    /\ [][(isAutoTrackingSetup /\ isAutoTrackingSetup')
            => /\ rafPending' <= rafPending
               /\ UNCHANGED <<pageviewTracker, historyWraps, popstate, hashchange>>]_vars
    /\ [][rafPending' # rafPending
            => \/ (~isAutoTrackingSetup /\ isAutoTrackingSetup')
               \/ /\ rafPending' = rafPending - 1
                  /\ lastRun'.source = "raf"
                  /\ lastRun'.triggers = 1]_vars
    /\ [][(lastRun = NoRun /\ lastRun'.source = "raf")
            => rafPending' = rafPending - 1]_vars

\* C34 witness: the second install's frame callback is still pending, the
\* first install's has just produced its one trigger
C34_Witness ==
    /\ lastRun.source = "raf"
    /\ lastRun.triggers = 1
    /\ pageviewTracker = 2
    /\ rafPending = 1
    /\ isAutoTrackingSetup

\* the ids of the callbacks a notification invoked, in order of invocation
Invoked == [i \in 1..Len(lastRun.notes) |-> lastRun.notes[i].cb]

\* C35: after the unsubscribe function returned by onPageChange /
\* addPageChangeCallback has been called, that callback is not invoked for
\* any later page change, and the remaining callbacks are still invoked in
\* their registration order
C35_UnsubscribedNotInvoked ==
    /\ [](Range(Invoked) \cap unsubscribed = {})
    /\ [](lastRun.notes # <<>>
            => Invoked = [i \in 1..Len(pageChangeCallbacks) |-> pageChangeCallbacks[i].id])
    /\ [][\A id \in unsubscribed' \ unsubscribed :
            pageChangeCallbacks' = SelectSeq(pageChangeCallbacks, LAMBDA cb : cb.id # id)]_vars

\* C35 witness: of three callbacks the one registered first was
\* unsubscribed, and a page change then invoked the other two in the order
\* of their registration
C35_Witness ==
    /\ unsubscribed # {}
    /\ Len(lastRun.notes) = 2
    /\ Len(pageChangeCallbacks) = 2
    /\ \E id \in unsubscribed : \A i \in 1..2 : id < pageChangeCallbacks[i].id
    /\ Invoked = [i \in 1..2 |-> pageChangeCallbacks[i].id]

(***************************************************************************)
(* Properties of the user identity replay batches carry.                   *)
(***************************************************************************)
\* C36: every replay batch carries the user identity that is current at
\* flush time: after identify(u) batches carry the same trimmed id that
\* track payloads carry, and after clearUserId no later batch carries the
\* cleared id
C36_BatchCarriesCurrentUser ==
    [][\A b \in inFlight' \ inFlight : lastOp'.userId = customUserId]_vars

(***************************************************************************)
(* Properties of the web-vitals collector.                                 *)
(***************************************************************************)
\* C40: the web-vitals collector dispatches at most one performance event
\* per page lifetime, on whichever comes first of all five metrics
\* collected, the timeout, or page unload; a metric reported after that
\* dispatch neither changes the collected data nor causes another dispatch
C40_OneVitalsDispatch ==
    /\ [](Len(performanceEvents) <= 1)
    /\ [](webVitalsSent <=> Len(performanceEvents) = 1)
    /\ []((\A m \in Metrics : webVitalsData[m] # NULL) => webVitalsSent)
    /\ [][vitalsTimers' # vitalsTimers /\ vitalsInstalls' = vitalsInstalls
            => webVitalsSent']_vars
    /\ [][webVitalsSent => UNCHANGED <<webVitalsData, performanceEvents>>]_vars
    /\ [](\A i \in 1..Len(performanceEvents) :
            /\ performanceEvents[i].webVitals = webVitalsData
            /\ performanceEvents[i].cause = "metrics"
                  <=> \A m \in Metrics : webVitalsData[m] # NULL)

\* C40 witness: after two initWebVitals calls the second timeout fired with
\* one metric still missing and the data went out once; the first timeout,
\* still pending, will find it sent
C40_Witness ==
    /\ Len(performanceEvents) = 1
    /\ performanceEvents[1].cause = "timeout"
    /\ \E m \in Metrics : webVitalsData[m] = NULL
    /\ \E m \in Metrics : webVitalsData[m] # NULL
    /\ webVitalsSent
    /\ vitalsTimers # {}

====
